---- MODULE Spec2Model ----
(***************************************************************************)
(* A model of tls_requests: the rotators (models/rotators.py), the header  *)
(* container they hand out (models/headers.py) and the redirect loop of    *)
(* the client (client.py).                                                 *)
(*                                                                         *)
(* The specifications share the variables of the module:                   *)
(*   SpecRot     one rotator and the calls next/anext/add/remove made on   *)
(*               it, each call one atomic step (the body under the lock);  *)
(*   SpecHdr     a HeaderRotator whose items are Headers objects kept in a *)
(*               heap of mutable value lists, its next/anext and the       *)
(*               caller's later writes to the objects it was handed;       *)
(*   SpecClient  one client and the send() calls made on it, one step per  *)
(*               engine dispatch (SpecClientLive adds fairness of the      *)
(*               engine's replies);                                        *)
(*   SpecTls     the engine binding TLSClient and the replies it decodes;  *)
(*   SpecLife    the client's lifecycle: enter, close and send;            *)
(*   SpecProxy   one Proxy and the mark_result calls made on it;           *)
(*   SpecLock    one rotator shared by concurrent callers, one step per    *)
(*               lock operation and attribute access;                      *)
(*   SpecReq     the request a client call builds from the client's        *)
(*               defaults, and auth and hooks run on it;                   *)
(*   SpecPair    a Client and an AsyncClient fed the same replies;         *)
(*   SpecResp    the end of send(): response hooks, read and close;        *)
(*   SpecThreads concurrent next()/anext() on a round-robin rotator;       *)
(*   SpecWeighted the weighted sampler of a ProxyRotator under add,        *)
(*               remove, mark_result and next;                             *)
(*   SpecFile    ProxyRotator.from_file on lists, .json and text files.    *)
(*   SpecHop     the requests of one redirect chain: the URL, headers,     *)
(*               cookies, proxy and timeout of every dispatch;             *)
(*   SpecShared  one client shared by two callers who call the verb        *)
(*               methods and close();                                      *)
(*   SpecRelease the rotator's locks on a rotator built empty, with every  *)
(*               caller running on (weak fairness).                        *)
(***************************************************************************)
EXTENDS Integers, Sequences, FiniteSets, TLC

VARIABLES
    \* ---- rotator (BaseRotator.__init__) ----
    kind,        \* the rotator's class
    items,       \* self.items: a sequence of item ids
    strategy,    \* self.strategy
    iterator,    \* self._iterator
    viaFile,     \* how the rotator was built: [fromFile, given]
    lastOp,      \* the last call made on the rotator and what it was given
    result,      \* what the last call returned or raised
    results,     \* the items round-robin next()/anext() returned since the iterator was last rebuilt
    \* ---- Headers heap (HeaderRotator) ----
    objs,        \* Headers objects: object id -> _items, a sequence of [key, ref]
    lists,       \* the value lists the _items tuples point to: ref -> sequence of strings
    stored0,     \* the contents of every stored template as first built
    handed,      \* the object ids next()/anext() returned, in call order
    writes,      \* how many times the caller wrote to an object it was handed
    \* ---- client ----
    client,      \* the client's attributes
    engine,      \* the engine: the sessions destroyed so far, the next fresh session id
    call,        \* per caller, the send() in progress: its locals
    \* ---- engine binding (TLSClient) ----
    served,      \* the replies the engine returned, in order: [fn, async, id]
    freed,       \* the ids passed to the engine's freeMemory, in order
    \* ---- client lifecycle ----
    life,        \* the calls made on the client: how many, the last one and how it ended
    \* ---- proxy statistics (Proxy, ProxyRotator.mark_result) ----
    proxy,       \* the Proxy object's weight, failures, success_rate and latency
    lastMark,    \* the mark_result calls made: how many, the last one, the weight before it
    \* ---- rotator locks (BaseRotator._lock, BaseRotator._async_lock) ----
    locks,       \* who holds the threading.Lock and who holds the asyncio.Lock: a caller or 0
    caller,      \* per caller of the rotator, the call in progress: its position and locals
    \* ---- an AsyncClient beside the Client ----
    aclient,     \* the AsyncClient's attributes
    aengine,     \* the engine as the AsyncClient drives it
    acall,       \* the AsyncClient.send() in progress: its locals
    \* ---- threads on one rotator ----
    turns        \* the order in which callers acquired the lock, and what each next() got

rotVars == <<kind, items, strategy, iterator, viaFile, lastOp, result, results>>
hdrVars == <<objs, lists, stored0, handed, writes>>
cliVars == <<client, engine, call>>
tlsVars == <<served, freed>>
\* the variables of the parts added after the rotators, the headers and the client
prxVars == <<proxy, lastMark>>
lockVars == <<locks, caller>>
pairVars == <<aclient, aengine, acall>>
extraVars == <<turns>>
restVars == <<served, freed, life, proxy, lastMark, locks, caller,
              aclient, aengine, acall, turns>>
vars == <<kind, items, strategy, iterator, viaFile, lastOp, result, results,
          objs, lists, stored0, handed, writes, client, engine, call,
          served, freed, life, proxy, lastMark, locks, caller,
          aclient, aengine, acall, turns>>

\* no engine call made through TLSClient
TlsIdle ==
    /\ served = <<>>
    /\ freed = <<>>

\* no lifecycle call followed
LifeIdle == life = [ops |-> 0]

\* no proxy followed
PrxIdle ==
    /\ proxy = [weight |-> 0]
    /\ lastMark = [n |-> 0]

\* no rotator shared between callers
LockIdle ==
    /\ locks = [lock |-> 0, async_lock |-> 0]
    /\ caller = <<>>

\* no AsyncClient followed
PairIdle ==
    /\ aclient = [state |-> "UNOPENED"]
    /\ aengine = [destroyed |-> {}]
    /\ acall = [pc |-> "idle"]

\* no lock acquisition followed
ExtraIdle == turns = [order |-> <<>>, got |-> <<>>]

RestIdle == TlsIdle /\ LifeIdle /\ PrxIdle /\ LockIdle /\ PairIdle /\ ExtraIdle

----------------------------------------------------------------------------
(* Bounds of the model *)

\* user-supplied items are the ids 1..MaxItemId
MaxItemId == 3
\* the longest item list add() may build and the longest source from_file() is given
MaxItems == 3

\* round-robin calls recorded since the last rebuild of the iterator: two full cycles
MaxCalls == 2 * MaxItems

----------------------------------------------------------------------------
(* Rotators: models/rotators.py *)

Strategies == {"round_robin", "random", "weighted"}
Kinds == {"ProxyRotator", "TLSIdentifierRotator", "HeaderRotator"}

\* the strategy argument left out by the caller
Unset == "unset"
\* a raw entry rebuild_item() rejects (returns None for)
Invalid == 0

ItemIds == 1..MaxItemId

\* len(TLS_IDENTIFIER_TEMPLATES), len(HEADER_TEMPLATES) = len(USER_AGENTS)
NumTLSTemplates == 13
NumHeaderTemplates == 44

\* ids of the built-in templates, disjoint from the user's ids
TLS_IDENTIFIER_TEMPLATES == [i \in 1..NumTLSTemplates |-> 100 + i]
HEADER_TEMPLATES == [i \in 1..NumHeaderTemplates |-> 200 + i]

NoIterator == [kind |-> "none"]
NoResult == [kind |-> "none"]
ValueError == [kind |-> "ValueError"]
Returned(v) == [kind |-> "value", val |-> v]

\* getattr(item, "weight", 1.0), in tenths
ItemWeight(item) == 10

\* BaseRotator._rebuild_iterator
RebuildIterator(its, strat, old) ==
    IF its = <<>> THEN NoIterator
    ELSE IF strat = "round_robin" THEN [kind |-> "cycle", saved |-> its, pos |-> 0]
    ELSE IF strat = "random" THEN NoIterator
    ELSE [kind |-> "weighted", population |-> its,
          weights |-> [i \in 1..Len(its) |-> ItemWeight(its[i])]]

\* the strategy the constructor of each class takes when given none
CtorStrategy(k, s) ==
    IF s # Unset THEN s
    ELSE IF k = "TLSIdentifierRotator" THEN "round_robin" ELSE "random"

\* `items or TEMPLATES` in the subclasses' constructors
CtorItems(k, its) ==
    IF its # <<>> THEN its
    ELSE IF k = "TLSIdentifierRotator" THEN TLS_IDENTIFIER_TEMPLATES
    ELSE IF k = "HeaderRotator" THEN HEADER_TEMPLATES
    ELSE <<>>

RECURSIVE ValidItems(_)
\* valid_items = [item for item in items if item is not None]
ValidItems(src) ==
    IF src = <<>> THEN <<>>
    ELSE IF Head(src) = Invalid THEN ValidItems(Tail(src))
    ELSE <<Head(src)>> \o ValidItems(Tail(src))

\* BaseRotator.from_file: the strategy handed to cls(valid_items, strategy)
FromFileStrategy(k, s) == IF s # Unset THEN s ELSE "random"

\* next(self._iterator), random.choice(self.items): the values the call may
\* return with the iterator each leaves behind
NextOutcomesNoEmptyCheck ==
    IF items = <<>> THEN {[val |-> [kind |-> "TypeError"], it |-> iterator]}
    ELSE IF strategy = "random"
      THEN {[val |-> Returned(items[i]), it |-> iterator] : i \in 1..Len(items)}
    ELSE IF iterator.kind = "cycle"
      THEN {[val |-> Returned(iterator.saved[iterator.pos + 1]),
             it |-> [iterator EXCEPT !.pos = (iterator.pos + 1) % Len(iterator.saved)]]}
    ELSE {[val |-> Returned(iterator.population[i]), it |-> iterator] :
             i \in {j \in 1..Len(iterator.population) : iterator.weights[j] > 0}}
NextOutcomesStuckCursor ==
    IF items = <<>> THEN {[val |-> ValueError, it |-> iterator]}
    ELSE IF strategy = "random"
      THEN {[val |-> Returned(items[i]), it |-> iterator] : i \in 1..Len(items)}
    ELSE IF iterator.kind = "cycle"
      THEN {[val |-> Returned(iterator.saved[iterator.pos + 1]),
             it |-> [iterator EXCEPT !.pos = IF iterator.pos + 1 < Len(iterator.saved)
                                              THEN iterator.pos + 1 ELSE iterator.pos]]}
    ELSE {[val |-> Returned(iterator.population[i]), it |-> iterator] :
             i \in {j \in 1..Len(iterator.population) : iterator.weights[j] > 0}}
NextOutcomes ==
    IF items = <<>> THEN {[val |-> ValueError, it |-> iterator]}
    ELSE IF strategy = "random"
      THEN {[val |-> Returned(items[i]), it |-> iterator] : i \in 1..Len(items)}
    ELSE IF iterator.kind = "cycle"
      THEN {[val |-> Returned(iterator.saved[iterator.pos + 1]),
             it |-> [iterator EXCEPT !.pos = (iterator.pos + 1) % Len(iterator.saved)]]}
    ELSE {[val |-> Returned(iterator.population[i]), it |-> iterator] :
             i \in {j \in 1..Len(iterator.population) : iterator.weights[j] > 0}}

\* the round-robin calls recorded in `results`, capped at MaxCalls
Record(o) ==
    IF o.val.kind = "value" /\ strategy = "round_robin" /\ Len(results) < MaxCalls
      THEN Append(results, o.val.val) ELSE results

\* BaseRotator.next (async = FALSE) and BaseRotator.anext (async = TRUE)
RotNext(async) ==
    /\ \E o \in NextOutcomes :
         /\ result' = o.val
         /\ iterator' = o.it
         /\ results' = Record(o)
    /\ lastOp' = [op |-> "next", async |-> async, arg |-> Invalid]
    /\ UNCHANGED <<kind, items, strategy, viaFile>>

\* BaseRotator.add and BaseRotator.aadd
RotAdd(async, item) ==
    /\ Len(items) < MaxItems
    /\ items' = Append(items, item)
    /\ iterator' = RebuildIterator(items', strategy, iterator)
    /\ result' = NoResult
    /\ results' = <<>>
    /\ lastOp' = [op |-> "add", async |-> async, arg |-> item]
    /\ UNCHANGED <<kind, strategy, viaFile>>

\* [i for i in self.items if i != item]
Without(its, item) == SelectSeq(its, LAMBDA i : i # item)

\* BaseRotator.remove and BaseRotator.aremove
RotRemoveNoRebuild(async, item) ==
    /\ items' = Without(items, item)
    /\ result' = NoResult
    /\ results' = <<>>
    /\ lastOp' = [op |-> "remove", async |-> async, arg |-> item]
    /\ UNCHANGED <<kind, strategy, viaFile, iterator>>
RotRemove(async, item) ==
    /\ items' = Without(items, item)
    /\ iterator' = RebuildIterator(items', strategy, iterator)
    /\ result' = NoResult
    /\ results' = <<>>
    /\ lastOp' = [op |-> "remove", async |-> async, arg |-> item]
    /\ UNCHANGED <<kind, strategy, viaFile>>

\* the items remove() is tried with: the user's ids and the first template of each list
RemoveArgs == ItemIds \cup {TLS_IDENTIFIER_TEMPLATES[1], HEADER_TEMPLATES[1]}

\* the sources from_file() is given: lists of raw entries, some of them invalid
RECURSIVE SeqsUpTo(_, _)
SeqsUpTo(S, n) ==
    IF n = 0 THEN {<<>>}
    ELSE LET shorter == SeqsUpTo(S, n - 1)
         IN shorter \cup {Append(s, x) : s \in {t \in shorter : Len(t) = n - 1}, x \in S}

Sources == SeqsUpTo(ItemIds \cup {Invalid}, MaxItems)
ItemLists == SeqsUpTo(ItemIds, MaxItems)

\* the rotator cls(its, s) builds
Constructed(k, its, s, how) ==
    /\ kind = k
    /\ items = CtorItems(k, its)
    /\ strategy = CtorStrategy(k, s)
    /\ iterator = RebuildIterator(items, strategy, NoIterator)
    /\ viaFile = how
    /\ lastOp = [op |-> "init", async |-> FALSE, arg |-> Invalid]
    /\ result = NoResult
    /\ results = <<>>

\* cls.from_file(source, strategy) with a list source
FromFile(k, src, s) ==
    Constructed(k, ValidItems(src), FromFileStrategy(k, s), [fromFile |-> TRUE, given |-> s])

\* cls(items, strategy)
Direct(k, its, s) ==
    Constructed(k, its, s, [fromFile |-> FALSE, given |-> s])

HdrIdle ==
    /\ objs = <<>>
    /\ lists = <<>>
    /\ stored0 = <<>>
    /\ handed = <<>>
    /\ writes = 0

CliIdle ==
    /\ client = [state |-> "UNOPENED"]
    /\ engine = [destroyed |-> {}]
    /\ call = <<>>

InitRot ==
    /\ \E k \in Kinds, s \in Strategies \cup {Unset} :
         \/ \E src \in Sources : FromFile(k, src, s)
         \/ \E its \in ItemLists : Direct(k, its, s)
    /\ HdrIdle
    /\ CliIdle
    /\ RestIdle

NextRot ==
    /\ \/ \E a \in BOOLEAN : RotNext(a)
       \/ \E a \in BOOLEAN, x \in ItemIds : RotAdd(a, x)
       \/ \E a \in BOOLEAN, x \in RemoveArgs : RotRemove(a, x)
    /\ UNCHANGED <<hdrVars, cliVars, restVars>>

SpecRot == InitRot /\ [][NextRot]_vars

----------------------------------------------------------------------------
(* Claims about the rotators, checked under SpecRot *)

\* C1: under round_robin, with no add/remove in between, the i-th next()/anext()
\* since the iterator was built returns items[i mod N]: insertion order, wrapping,
\* so that 2N calls return every position of the list exactly twice.
C1_RoundRobinOrder ==
    strategy = "round_robin" =>
        \A i \in 1..Len(results) : results[i] = items[((i - 1) % Len(items)) + 1]

\* two full cycles over a list of three items have been returned
C1_Witness ==
    /\ strategy = "round_robin"
    /\ Len(items) = 3
    /\ Len(results) = 2 * Len(items)
    /\ lastOp.op = "next"

\* C2: next()/anext() on a rotator whose item list is empty raises the emptiness
\* error under every strategy and leaves the item list and the strategy as they were.
C2_EmptyNextRaises ==
    [][\A a \in BOOLEAN :
         (RotNext(a) /\ items = <<>>) =>
             (result' = ValueError /\ items' = items /\ strategy' = strategy)]_vars

\* an anext() that failed on a rotator which was built with items and emptied by remove
C2_Witness ==
    /\ kind = "TLSIdentifierRotator"
    /\ items = <<>>
    /\ lastOp.op = "next"
    /\ lastOp.async
    /\ result = ValueError

\* C3: a rotator built by from_file without a strategy has strategy random
\* (ProxyRotator, HeaderRotator) or round_robin (TLSIdentifierRotator).
C3_FromFileDefaultStrategy ==
    (viaFile.fromFile /\ viaFile.given = Unset) =>
        strategy = (IF kind = "TLSIdentifierRotator" THEN "round_robin" ELSE "random")

\* every item of the list can be drawn: the cycle runs over the list as it
\* stands, the weighted sampler draws from it with a positive weight for each
\* item, and random.choice draws from self.items itself
EveryItemReachable ==
    items # <<>> =>
        /\ strategy = "round_robin" => (iterator.kind = "cycle" /\ iterator.saved = items)
        /\ strategy = "weighted" =>
               /\ iterator.kind = "weighted"
               /\ iterator.population = items
               /\ \A i \in 1..Len(items) : iterator.weights[i] > 0
        /\ strategy \in {"random", "weighted"} =>
               \E drawn \in {{o.val : o \in NextOutcomes}} :
                  \A i \in 1..Len(items) : Returned(items[i]) \in drawn

----------------------------------------------------------------------------
(* Headers: models/headers.py.  A string is a sequence of tokens, so that  *)
(* ",".join(values) is a string like any other.  A Headers object is       *)
(* its _items: a sequence of (key, list) pairs whose lists live in `lists` *)
(* and are referred to by index, as the Python tuples refer to list        *)
(* objects.                                                                *)

\* handed-out Headers objects the model follows
MaxHanded == 2
\* stored templates of the HeaderRotator
MaxTemplates == 2
\* writes the caller makes to the objects it was handed
MaxWrites == 2

Comma == ","
\* the strings used as header values
StrUA == <<"Test-UA">>
StrCustom == <<"My-Custom-Bot">>
StrAccept == <<"text/html">>
\* user_agent=None (or any falsy value)
NoUserAgent == <<>>

\* Headers._normalize_key with the default alias "lower": key.lower()
NormalizeKey(key) ==
    CASE key = "User-Agent" -> "user-agent"
      [] key = "Accept" -> "accept"
      [] key = "Host" -> "host"
      [] key = "Authorization" -> "authorization"
      [] key = "X-Hook" -> "x-hook"
      [] OTHER -> key

\* Headers._normalize_value of a single string: [to_str(value)]
NormalizeValue(value) == <<value>>

RECURSIVE Join(_)
\* ",".join(values)
Join(values) ==
    IF values = <<>> THEN <<>>
    ELSE IF Len(values) = 1 THEN values[1]
    ELSE values[1] \o <<Comma>> \o Join(Tail(values))

SeqRange(q) == {q[i] : i \in 1..Len(q)}

\* the first index of `its` whose key is k, 0 when there is none
IndexOf(its, k) ==
    LET hits == {i \in 1..Len(its) : its[i].k = k}
    IN IF hits = {} THEN 0 ELSE CHOOSE i \in hits : \A j \in hits : i <= j

Heap == [objs |-> objs, lists |-> lists]

\* Headers.get(key) / Headers.__getitem__: None when the key is absent
Missing == <<"<None>">>
Get(hp, o, key) ==
    LET i == IndexOf(hp.objs[o], NormalizeKey(key))
    IN IF i = 0 THEN Missing ELSE Join(hp.lists[hp.objs[o][i].ref])

\* Headers.__setitem__: an existing key has the new values appended to its list
SetItem(hp, o, key, value) ==
    LET k == NormalizeKey(key)
        val == NormalizeValue(value)
        i == IndexOf(hp.objs[o], k)
    IN IF i # 0
         THEN LET r == hp.objs[o][i].ref
                  values == SelectSeq(val, LAMBDA v : v \notin SeqRange(hp.lists[r]))
              IN [hp EXCEPT !.lists[r] = @ \o values]
         ELSE [objs |-> [hp.objs EXCEPT ![o] = Append(@, [k |-> k, ref |-> Len(hp.lists) + 1])],
               lists |-> Append(hp.lists, val)]

\* Headers.__delitem__: drops the first pair with the key
DelItem(hp, o, key) ==
    LET i == IndexOf(hp.objs[o], NormalizeKey(key))
        its == hp.objs[o]
    IN IF i = 0 THEN hp
       ELSE [hp EXCEPT !.objs[o] = SubSeq(its, 1, i - 1) \o SubSeq(its, i + 1, Len(its))]

\* Headers.copy: Headers(self._items.copy()) runs _prepare_items over the pairs,
\* and _normalize_value builds a new list for each; the copy is the last object
CopyShallow(hp, o) ==
    [hp EXCEPT !.objs = Append(@, hp.objs[o])]
Copy(hp, o) ==
    LET its == hp.objs[o]
        n == Len(hp.lists)
    IN [objs |-> Append(hp.objs, [i \in 1..Len(its) |->
                                     [k |-> NormalizeKey(its[i].k), ref |-> n + i]]),
        lists |-> hp.lists \o [i \in 1..Len(its) |-> hp.lists[its[i].ref]]]

\* what an object holds: its pairs with the lists read out
Contents(hp, o) ==
    [i \in 1..Len(hp.objs[o]) |-> [k |-> hp.objs[o][i].k, v |-> hp.lists[hp.objs[o][i].ref]]]

\* the list objects an object refers to
Refs(hp, o) == {hp.objs[o][i].ref : i \in 1..Len(hp.objs[o])}

\* HeaderRotator.next (async = FALSE) and HeaderRotator.anext (async = TRUE)
HdrNext(async, user_agent) ==
    /\ Len(handed) < MaxHanded
    /\ \E o \in NextOutcomes :
         /\ iterator' = o.it
         /\ results' = Record(o)
         /\ IF o.val.kind # "value"
              THEN /\ result' = o.val
                   /\ UNCHANGED <<objs, lists, handed>>
              ELSE LET copied == Copy(Heap, o.val.val)
                       headers_copy == Len(copied.objs)
                       final == IF user_agent # NoUserAgent
                                  THEN SetItem(copied, headers_copy, "User-Agent", user_agent)
                                  ELSE copied
                   IN /\ objs' = final.objs
                      /\ lists' = final.lists
                      /\ handed' = Append(handed, headers_copy)
                      /\ result' = Returned(headers_copy)
    /\ lastOp' = [op |-> "next", async |-> async, arg |-> user_agent]
    /\ UNCHANGED <<kind, items, strategy, viaFile, stored0, writes>>

\* the caller writes to a Headers object it was handed: h[key] = value
CallerSetItem(n, key, value) ==
    /\ n \in 1..Len(handed)
    /\ writes < MaxWrites
    /\ writes' = writes + 1
    /\ LET hp == SetItem(Heap, handed[n], key, value)
       IN objs' = hp.objs /\ lists' = hp.lists
    /\ lastOp' = [op |-> "caller", async |-> FALSE, arg |-> value]
    /\ UNCHANGED <<kind, items, strategy, iterator, viaFile, result, results, stored0, handed>>

\* the caller deletes from a Headers object it was handed: del h[key]
CallerDelItem(n, key) ==
    /\ n \in 1..Len(handed)
    /\ writes < MaxWrites
    /\ writes' = writes + 1
    /\ LET hp == DelItem(Heap, handed[n], key)
       IN objs' = hp.objs /\ lists' = hp.lists
    /\ lastOp' = [op |-> "caller", async |-> FALSE, arg |-> NoUserAgent]
    /\ UNCHANGED <<kind, items, strategy, iterator, viaFile, result, results, stored0, handed>>

\* the mappings the templates are built from: sequences of (key, values)
TemplateSources ==
    { <<[k |-> "Accept", v |-> <<StrAccept>>], [k |-> "User-Agent", v |-> <<StrUA>>]>>,
      <<[k |-> "Accept", v |-> <<StrAccept>>]>> }

RECURSIVE BuildTemplates(_, _)
\* HeaderRotator.rebuild_item over the source: Headers(item) for each mapping
BuildTemplates(srcs, hp) ==
    IF srcs = <<>> THEN hp
    ELSE LET m == Head(srcs)
             n == Len(hp.lists)
             built == [objs |-> Append(hp.objs, [i \in 1..Len(m) |->
                                                   [k |-> NormalizeKey(m[i].k), ref |-> n + i]]),
                       lists |-> hp.lists \o [i \in 1..Len(m) |-> m[i].v]]
         IN BuildTemplates(Tail(srcs), built)

InitHdr ==
    /\ \E srcs \in SeqsUpTo(TemplateSources, MaxTemplates) \ {<<>>},
          s \in {Unset, "round_robin"} :
         LET hp == BuildTemplates(srcs, [objs |-> <<>>, lists |-> <<>>])
         IN /\ objs = hp.objs
            /\ lists = hp.lists
            /\ FromFile("HeaderRotator", [i \in 1..Len(srcs) |-> i], s)
            /\ stored0 = [i \in 1..Len(srcs) |-> Contents(hp, i)]
    /\ handed = <<>>
    /\ writes = 0
    /\ CliIdle
    /\ RestIdle

NextHdr ==
    /\ \/ \E a \in BOOLEAN, ua \in {NoUserAgent, StrCustom, StrUA} : HdrNext(a, ua)
       \/ \E n \in 1..MaxHanded, key \in {"User-Agent", "Accept"}, value \in {StrCustom} :
            CallerSetItem(n, key, value)
       \/ \E n \in 1..MaxHanded, key \in {"User-Agent", "Accept"} : CallerDelItem(n, key)
    /\ UNCHANGED <<cliVars, restVars>>

SpecHdr == InitHdr /\ [][NextHdr]_vars

----------------------------------------------------------------------------
(* Claims about the HeaderRotator, checked under SpecHdr *)

\* C4: next(user_agent=X)/anext(user_agent=X) with a non-empty X returns a
\* header set whose User-Agent is exactly X, also when the drawn template
\* already carries a User-Agent.
C4_UserAgentOverride ==
    (lastOp.op = "next" /\ lastOp.arg # NoUserAgent /\ result.kind = "value") =>
        Get(Heap, result.val, "User-Agent") = lastOp.arg

\* C5: whatever next()/anext() calls were made and whatever the caller wrote to
\* the header sets it was handed, every stored template holds what it held when
\* it was stored, and every handed-out header set is another object than every
\* stored template.
C5_TemplatesUntouched ==
    /\ \A i \in 1..Len(items) : Contents(Heap, items[i]) = stored0[items[i]]
    /\ \A n \in 1..Len(handed) : \A i \in 1..Len(items) : handed[n] # items[i]

\* next(user_agent=X) handed out a copy of a template that carries a User-Agent,
\* the caller wrote to the copy's Accept list in place, and a later next() was made
C5_Witness ==
    /\ Len(handed) = 2
    /\ lastOp.op = "next"
    /\ writes > 0
    /\ \E i \in 1..Len(items) :
         /\ Get(Heap, items[i], "User-Agent") = StrUA
         /\ Get(Heap, handed[1], "Accept") = Join(<<StrAccept, StrCustom>>)
         /\ Get(Heap, handed[1], "User-Agent") = Join(<<StrUA, StrCustom>>)

----------------------------------------------------------------------------
(* The client: client.py.  A send() is followed from await to await: one   *)
(* step starts it and makes the first dispatch, one step takes each engine *)
(* reply through _send up to the next dispatch or to the end of send().    *)
(* The client is built without auth and without hooks.                     *)

\* the largest max_redirects a client is built with
MaxRedirects == 2
\* the callers that may share the client
Threads == {1, 2}

Methods == {"GET", "POST", "HEAD", "PUT"}
Schemes == {"http", "https"}
Hosts == {"a.test", "b.test"}
\* the client's http2 argument: "None" stands for None
Http2Modes == {"auto", "None", "http1", "http2"}

\* StatusCodes and REDIRECT_STATUS
MOVED_PERMANENTLY == 301
FOUND == 302
SEE_OTHER == 303
TEMPORARY_REDIRECT == 307
PERMANENT_REDIRECT == 308
REDIRECT_STATUS == {MOVED_PERMANENTLY, FOUND, SEE_OTHER, TEMPORARY_REDIRECT, PERMANENT_REDIRECT}

\* the statuses the engine answers with: 0 is a local failure (a timeout)
Statuses == {0, 200, 404, 500} \cup REDIRECT_STATUS

\* the Location header of a reply: absent, a path ("/next"), an absolute URL,
\* or a value URL() rejects ("http://a.test:99999/")
NoLocation == [form |-> "absent"]
PathLocation == [form |-> "path"]
BadLocation == [form |-> "bad"]
AbsLocation(sch, h) == [form |-> "absolute", scheme |-> sch, host |-> h]
Locations ==
    {NoLocation, PathLocation, BadLocation} \cup {AbsLocation(sch, h) : sch \in Schemes, h \in Hosts}

Replies == [status : Statuses, location : Locations]

\* Response.is_redirect
IsRedirect(reply) ==
    reply.location # NoLocation /\ reply.status \in REDIRECT_STATUS

\* BaseClient._rebuild_redirect_method
RebuildRedirectMethodRewritesHead(method, status) ==
    IF status \in {SEE_OTHER, FOUND} THEN "GET"
    ELSE IF status = MOVED_PERMANENTLY /\ method = "POST" THEN "GET"
    ELSE method
RebuildRedirectMethod(method, status) ==
    LET m1 == IF status = SEE_OTHER /\ method # "HEAD" THEN "GET" ELSE method
        m2 == IF status = FOUND /\ m1 # "HEAD" THEN "GET" ELSE m1
        m3 == IF status = MOVED_PERMANENTLY /\ m2 = "POST" THEN "GET" ELSE m2
    IN m3

\* BaseClient._rebuild_redirect_url: the URL it returns or the error it raises,
\* and the session it leaves the client with
RebuildRedirectUrl(url, location, cl, eng) ==
    IF location = BadLocation
      THEN [error |-> "URLError", url |-> url, client |-> cl, engine |-> eng]
    ELSE LET parsed == IF location = PathLocation
                         THEN [scheme |-> url.scheme, host |-> url.host]
                         ELSE [scheme |-> location.scheme, host |-> location.host]
         IN IF parsed.scheme = url.scheme
              THEN [error |-> "none", url |-> parsed, client |-> cl, engine |-> eng]
            ELSE IF url.scheme = "http"
              THEN [error |-> "none", url |-> [parsed EXCEPT !.scheme = url.scheme],
                    client |-> cl, engine |-> eng]
            ELSE IF cl.http2 \in {"auto", "None"}
              THEN [error |-> "none", url |-> parsed,
                    client |-> [cl EXCEPT !.sessionId = eng.nextId],
                    engine |-> [eng EXCEPT !.destroyed = @ \cup {cl.sessionId},
                                           !.nextId = @ + 1]]
            ELSE [error |-> "RemoteProtocolError", url |-> url, client |-> cl, engine |-> eng]

\* a counter that stops one above max_redirects + 1, the most the code can reach
Count(n, cl) == IF n < cl.max_redirects + 2 THEN n + 1 ELSE n

\* the log of the engine's replies to one send(), kept up to the same length
Logged(replies, reply, cl) ==
    IF Len(replies) < cl.max_redirects + 2
      THEN Append(replies, [status |-> reply.status, redirect |-> IsRedirect(reply)])
      ELSE replies

IdleCall == [pc |-> "idle"]

\* the locals of a send() that has just dispatched `method url`
Dispatched(method, url, follow, cl, history, replies, n) ==
    [pc |-> "inflight", method |-> method, url |-> url, follow |-> follow,
     sessionId |-> cl.sessionId, history |-> history, replies |-> replies,
     dispatches |-> n]

\* the locals of a send() that has ended: what it returned or raised
Ended(c, outcome) ==
    [pc |-> "done", follow |-> c.follow, history |-> c.history, replies |-> c.replies,
     dispatches |-> c.dispatches, outcome |-> outcome]

\* Response.from_tls_response, then response.read() and response.close() in send()
ReturnedResponse(id, reply, history) ==
    [kind |-> "response", id |-> id, status_code |-> reply.status, history |-> history,
     read |-> TRUE, closed |-> TRUE]
Raised(error) == [kind |-> error]

\* history.append(response)
AppendHistoryDropped(history, response) == history
AppendHistoryFront(history, response) == <<response>> \o history
AppendHistory(history, response) == Append(history, response)

\* is_break = bool(len(history) < self.max_redirects)
IsBreakOffByOne(history, cl) == Len(history) <= cl.max_redirects
IsBreak(history, cl) == Len(history) < cl.max_redirects

SendNoClosedCheck(t, method, url, follow_redirects) ==
    /\ call[t].pc = "idle"
    /\ UNCHANGED engine
    /\ LET cl == [client EXCEPT !.state = "OPENED",
                                !.follow_redirects = follow_redirects]
       IN /\ client' = cl
          /\ call' = [call EXCEPT ![t] =
                Dispatched(method, url, follow_redirects, cl, <<>>, <<>>, 1)]

\* Client.send / AsyncClient.send up to the first dispatch
Send(t, method, url, follow_redirects) ==
    /\ call[t].pc = "idle"
    /\ UNCHANGED engine
    /\ IF client.state = "CLOSED"
         THEN /\ call' = [call EXCEPT ![t] =
                    [pc |-> "done", follow |-> follow_redirects, history |-> <<>>,
                     replies |-> <<>>, dispatches |-> 0, outcome |-> Raised("RuntimeError")]]
              /\ UNCHANGED client
         ELSE LET cl == [client EXCEPT !.state = "OPENED",
                                       !.follow_redirects = follow_redirects]
              IN /\ client' = cl
                 /\ call' = [call EXCEPT ![t] =
                       Dispatched(method, url, follow_redirects, cl, <<>>, <<>>, 1)]

\* BaseClient._send / AsyncClient._send from the engine's reply on, and the rest
\* of send() when _send returns
Reply(t, reply) ==
    /\ call[t].pc = "inflight"
    /\ LET c == [call[t] EXCEPT !.replies = Logged(@, reply, client)]
           response == [id |-> c.dispatches, status_code |-> reply.status,
                        method |-> c.method]
       IN IF IsRedirect(reply)
            THEN LET rebuilt == RebuildRedirectUrl(c.url, reply.location, client, engine)
                     method == RebuildRedirectMethod(c.method, reply.status)
                 IN /\ client' = rebuilt.client
                    /\ engine' = rebuilt.engine
                    /\ IF rebuilt.error # "none"
                         THEN call' = [call EXCEPT ![t] = Ended(c, Raised(rebuilt.error))]
                       ELSE IF ~client.follow_redirects
                         THEN call' = [call EXCEPT ![t] =
                                 Ended(c, ReturnedResponse(response.id, reply, c.history))]
                       ELSE IF ~IsBreak(c.history, client)
                         THEN call' = [call EXCEPT ![t] = Ended(c, Raised("TooManyRedirects"))]
                       ELSE call' = [call EXCEPT ![t] =
                                 Dispatched(method, rebuilt.url, c.follow, rebuilt.client,
                                            AppendHistory(c.history, response), c.replies,
                                            Count(c.dispatches, client))]
            ELSE /\ call' = [call EXCEPT ![t] =
                        Ended(c, ReturnedResponse(response.id, reply, c.history))]
                 /\ UNCHANGED <<client, engine>>

\* the caller takes what send() returned or raised
Return(t) ==
    /\ call[t].pc = "done"
    /\ call' = [call EXCEPT ![t] = [pc |-> "returned"]]
    /\ UNCHANGED <<client, engine>>

RotIdle ==
    /\ kind = "ProxyRotator"
    /\ items = <<>>
    /\ strategy = "random"
    /\ iterator = NoIterator
    /\ viaFile = [fromFile |-> FALSE, given |-> Unset]
    /\ lastOp = [op |-> "init", async |-> FALSE, arg |-> Invalid]
    /\ result = NoResult
    /\ results = <<>>

\* BaseClient.__init__
InitClient ==
    /\ \E m \in 0..MaxRedirects, h2 \in Http2Modes, f \in BOOLEAN :
         client = [state |-> "UNOPENED", follow_redirects |-> f, max_redirects |-> m,
                   http2 |-> h2, sessionId |-> 1]
    /\ engine = [destroyed |-> {}, nextId |-> 2]
    /\ call = [t \in Threads |-> IdleCall]
    /\ RotIdle
    /\ HdrIdle
    /\ RestIdle

\* one caller, who calls send() once
NextClient ==
    /\ \/ \E m \in Methods, sch \in Schemes, h \in Hosts, f \in BOOLEAN :
            Send(1, m, [scheme |-> sch, host |-> h], f)
       \/ \E r \in Replies : Reply(1, r)
       \/ Return(1)
    /\ UNCHANGED <<rotVars, hdrVars, restVars>>

SpecClient == InitClient /\ [][NextClient]_vars

\* every engine call returns: a reply is eventually delivered to a waiting send()
EngineReplies ==
    (\E r \in Replies : Reply(1, r)) /\ UNCHANGED <<rotVars, hdrVars, restVars>>
SpecClientLive == SpecClient /\ WF_vars(EngineReplies)

----------------------------------------------------------------------------
(* Claims about the redirect loop, checked under SpecClient / SpecClientLive *)

\* the reply to the last dispatch of a send()
LastReply(c) == c.replies[Len(c.replies)]

\* a send() that has dispatched at least once, with follow_redirects true
Following(c) == c.pc \in {"inflight", "done"} /\ c.follow

\* the errors _rebuild_redirect_request raises
RebuildErrors == {"URLError", "RemoteProtocolError"}

\* the bound of C6: the history never holds more than max_redirects responses,
\* the engine is dispatched at most max_redirects + 1 times per send, and the
\* response that made send raise TooManyRedirects is not in the history
C6_Bounded(c) ==
    /\ Len(c.history) <= client.max_redirects
    /\ c.dispatches <= client.max_redirects + 1
    /\ (c.pc = "done" /\ c.outcome.kind = "TooManyRedirects") =>
           \A i \in 1..Len(c.history) : c.history[i].id # c.dispatches

C7_SendTerminates ==
    (call[1].pc = "inflight") ~> (call[1].pc = "done")

\* a send that was redirected round and round by 307 replies and was stopped
C7_Witness ==
    /\ call[1].pc = "done"
    /\ call[1].outcome.kind = "TooManyRedirects"
    /\ Len(call[1].replies) >= 2
    /\ \A i \in 1..Len(call[1].replies) : call[1].replies[i].status = TEMPORARY_REDIRECT

\* C8: when the first k replies of a send (follow_redirects true) are redirects and
\* reply k+1 is not, send returns the response to dispatch k+1 and its history is
\* the k redirect responses in dispatch order.
C8_HistoryIsRedirectChain ==
    \A t \in Threads :
        LET c == call[t] IN
        (c.pc = "done" /\ c.follow /\ Len(c.replies) > 0 /\ ~LastReply(c).redirect) =>
            /\ c.outcome.kind = "response"
            /\ c.outcome.id = Len(c.replies)
            /\ c.outcome.status_code = LastReply(c).status
            /\ Len(c.outcome.history) = Len(c.replies) - 1
            /\ \A i \in 1..Len(c.outcome.history) :
                 /\ c.replies[i].redirect
                 /\ c.outcome.history[i].id = i
                 /\ c.outcome.history[i].status_code = c.replies[i].status

\* a 301 and a 302 followed by a 200
C8_Witness ==
    /\ call[1].pc = "done"
    /\ call[1].outcome.kind = "response"
    /\ call[1].outcome.status_code = 200
    /\ Len(call[1].outcome.history) = 2
    /\ call[1].outcome.history[1].status_code = MOVED_PERMANENTLY
    /\ call[1].outcome.history[2].status_code = FOUND

\* the method the claim gives the rebuilt request
C9_Expected(m, st) ==
    IF st \in {FOUND, SEE_OTHER} /\ m # "HEAD" THEN "GET"
    ELSE IF st = MOVED_PERMANENTLY /\ m = "POST" THEN "GET"
    ELSE m

\* C9: the request rebuilt after a redirect has method GET when the status is 302
\* or 303 and the method was not HEAD, GET when the status is 301 and the method
\* was POST, and the method of the redirected request in every other case.
C9_RedirectMethod ==
    \A t \in Threads :
        LET c == call[t] IN
        c.pc = "inflight" =>
            \A i \in 1..Len(c.history) :
                LET rebuilt == IF i < Len(c.history) THEN c.history[i + 1].method ELSE c.method
                IN rebuilt = C9_Expected(c.history[i].method, c.history[i].status_code)

\* a POST request redirected by a 301 and again by a 308 is now a GET request
C9_Witness ==
    /\ call[1].pc = "inflight"
    /\ Len(call[1].history) = 2
    /\ call[1].history[1].method = "POST"
    /\ call[1].history[1].status_code = MOVED_PERMANENTLY
    /\ call[1].history[2].method = "GET"
    /\ call[1].history[2].status_code = PERMANENT_REDIRECT
    /\ call[1].method = "GET"

\* C10: a reply that is not a followed redirect makes send return a Response with
\* the reply's status, 0 and 4xx/5xx included, without raising.
C10_ReturnsWithoutRaising ==
    \A t \in Threads :
        LET c == call[t] IN
        (c.pc = "done" /\ Len(c.replies) > 0 /\ ~(LastReply(c).redirect /\ c.follow)) =>
            /\ c.outcome.kind = "response"
            /\ c.outcome.status_code = LastReply(c).status

----------------------------------------------------------------------------
(* The engine binding: models/tls.py, TLSClient.  Every call into the      *)
(* shared library returns a reply that carries an id; the library keeps    *)
(* the reply's memory until freeMemory is called with that id.             *)

\* engine calls made through TLSClient
MaxReplies == 3

\* the library functions TLSClient._send is used with
EngineFns == {"request", "destroySession", "getCookiesFromSession", "addCookiesToSession"}

\* the id the engine gives its next reply
FreshReplyId == Len(served) + 1

\* TLSClient.response: TLSResponse.from_bytes(raw), then free_memory(response.id)
Response(raw) == [decoded |-> raw, freed |-> Append(freed, raw.id)]

\* TLSClient.aresponse: the reply is decoded through StreamEncoder and returned
AResponse(raw) == [decoded |-> raw, freed |-> freed]

\* TLSClient._send(fn, payload): request, destroy_session, get_cookies, add_cookies
TlsSend(fn) ==
    /\ Len(served) < MaxReplies
    /\ LET raw == [fn |-> fn, async |-> FALSE, id |-> FreshReplyId]
           out == Response(raw)
       IN /\ served' = Append(served, out.decoded)
          /\ freed' = out.freed

\* TLSClient._aread(fn, payload): arequest
TlsARead(fn) ==
    /\ Len(served) < MaxReplies
    /\ LET raw == [fn |-> fn, async |-> TRUE, id |-> FreshReplyId]
           out == AResponse(raw)
       IN /\ served' = Append(served, out.decoded)
          /\ freed' = out.freed

InitTls ==
    /\ TlsIdle
    /\ PairIdle
    /\ ExtraIdle
    /\ LifeIdle
    /\ PrxIdle
    /\ LockIdle
    /\ RotIdle
    /\ HdrIdle
    /\ CliIdle

NextTls ==
    /\ \/ \E fn \in EngineFns : TlsSend(fn)
       \/ TlsARead("request")
    /\ UNCHANGED <<rotVars, hdrVars, cliVars, life, prxVars, lockVars, pairVars, extraVars>>

SpecTls == InitTls /\ [][NextTls]_vars

\* how many times freeMemory was called with id
FreeCalls(id) == Cardinality({i \in 1..Len(freed) : freed[i] = id})

\* C11: for every reply the engine returned to request or to arequest, freeMemory
\* has been called exactly once with the reply's id.
C11_FreedExactlyOnce ==
    \A i \in 1..Len(served) :
        served[i].fn = "request" => FreeCalls(served[i].id) = 1

----------------------------------------------------------------------------
(* The client's lifecycle: client.py, ClientState.  One caller enters,     *)
(* sends on and closes one client, in any order; close() may also run      *)
(* while a send() is waiting for the engine.                               *)

\* calls (enter, close, send) made on the client
MaxOps == 4

\* the replies the engine gives in this part: a 200 and a redirect to a path
LifeReplies ==
    {[status |-> 200, location |-> NoLocation], [status |-> FOUND, location |-> PathLocation]}

\* BaseClient.__enter__ / AsyncClient.__aenter__: the error raised and the state left
EnterNoClosedCheck(state) ==
    IF state = "OPENED" THEN [error |-> "RuntimeError", state |-> state]
    ELSE [error |-> "none", state |-> "OPENED"]
EnterOutcome(state) ==
    IF state = "OPENED" THEN [error |-> "RuntimeError", state |-> state]
    ELSE IF state = "CLOSED" THEN [error |-> "RuntimeError", state |-> state]
    ELSE [error |-> "none", state |-> "OPENED"]

\* one more call on the client
Called(op, async, error, state) ==
    [ops |-> life.ops + 1, op |-> op, async |-> async, error |-> error, before |-> state,
     entered |-> life.entered + (IF op = "enter" /\ error = "none" THEN 1 ELSE 0)]

\* __enter__ (async = FALSE) and __aenter__ (async = TRUE)
Enter(async) ==
    /\ life.ops < MaxOps
    /\ LET out == EnterOutcome(client.state)
       IN /\ client' = [client EXCEPT !.state = out.state]
          /\ life' = Called("enter", async, out.error, client.state)
    /\ UNCHANGED <<engine, call>>

\* close / __exit__ (async = FALSE) and aclose / __aexit__ (async = TRUE)
Close(async) ==
    /\ life.ops < MaxOps
    /\ engine' = [engine EXCEPT !.destroyed = @ \cup {client.sessionId}]
    /\ client' = [client EXCEPT !.state = "CLOSED"]
    /\ life' = Called("close", async, "none", client.state)
    /\ UNCHANGED call

\* send() called by the caller
LifeSend(t, follow_redirects) ==
    /\ life.ops < MaxOps
    /\ Send(t, "GET", [scheme |-> "https", host |-> "a.test"], follow_redirects)
    /\ life' = Called("send", FALSE, "none", client.state)

\* the caller takes the result of send() and may call again
LifeReturn(t) ==
    /\ call[t].pc = "done"
    /\ call' = [call EXCEPT ![t] = IdleCall]
    /\ UNCHANGED <<client, engine, life>>

InitLife ==
    /\ \E m \in 0..MaxRedirects, h2 \in Http2Modes, f \in BOOLEAN :
         client = [state |-> "UNOPENED", follow_redirects |-> f, max_redirects |-> m,
                   http2 |-> h2, sessionId |-> 1]
    /\ engine = [destroyed |-> {}, nextId |-> 2]
    /\ call = [t \in Threads |-> IdleCall]
    /\ life = [ops |-> 0, op |-> "init", async |-> FALSE, error |-> "none",
               before |-> "UNOPENED", entered |-> 0]
    /\ TlsIdle
    /\ PairIdle
    /\ ExtraIdle
    /\ PrxIdle
    /\ LockIdle
    /\ RotIdle
    /\ HdrIdle

NextLife ==
    /\ \/ \E a \in BOOLEAN : Enter(a)
       \/ \E a \in BOOLEAN : Close(a)
       \/ \E f \in BOOLEAN : LifeSend(1, f)
       \/ \E r \in LifeReplies : Reply(1, r) /\ UNCHANGED life
       \/ LifeReturn(1)
    /\ UNCHANGED <<rotVars, hdrVars, tlsVars, prxVars, lockVars, pairVars, extraVars>>

SpecLife == InitLife /\ [][NextLife]_vars

\* the moves ClientState may make
LifecycleMoves ==
    {<<"UNOPENED", "OPENED">>, <<"OPENED", "CLOSED">>, <<"UNOPENED", "CLOSED">>}

\* C12: the client state only moves UNOPENED -> OPENED -> CLOSED or UNOPENED ->
\* CLOSED; close leaves it CLOSED, no later step moves it away from CLOSED, and a
\* send() called on a closed client raises RuntimeError without any dispatch.
C12_LifecycleOneWay ==
    [][/\ client'.state # client.state => <<client.state, client'.state>> \in LifecycleMoves
       /\ (life'.ops > life.ops /\ life'.op = "close") => client'.state = "CLOSED"
       /\ (client.state = "CLOSED" /\ call[1].pc = "idle" /\ call'[1].pc # "idle") =>
              /\ call'[1].pc = "done"
              /\ call'[1].outcome.kind = "RuntimeError"
              /\ call'[1].dispatches = 0
              /\ engine' = engine
              /\ client' = client]_vars

\* a send() on a client that was opened by an earlier send() and then closed
C12_Witness ==
    /\ client.state = "CLOSED"
    /\ life.op = "send"
    /\ life.ops >= 3
    /\ call[1].pc = "done"
    /\ call[1].outcome.kind = "RuntimeError"

\* C13: __enter__/__aenter__ on an OPENED or CLOSED client raises RuntimeError and
\* leaves the state as it was; it succeeds only on an UNOPENED client, which it
\* leaves OPENED, so that no client is entered twice.
C13_EnterOnlyFromUnopened ==
    [][(life'.ops > life.ops /\ life'.op = "enter") =>
          /\ IF client.state = "UNOPENED"
               THEN life'.error = "none" /\ client'.state = "OPENED"
               ELSE life'.error = "RuntimeError" /\ client'.state = client.state
          /\ life'.entered <= 1]_vars

\* a client that was entered and closed, and then entered again without success
C13_Witness ==
    /\ life.op = "enter"
    /\ life.error = "RuntimeError"
    /\ life.before = "CLOSED"
    /\ life.entered = 1
    /\ client.state = "CLOSED"

----------------------------------------------------------------------------
(* Proxy statistics: models/urls.py, Proxy.mark_failed / mark_success, and *)
(* ProxyRotator.mark_result / amark_result.  Weights and success rates are *)
(* exact fractions over a common denominator: a weight w is the integer    *)
(* w * WeightScale, so that every product with 1.05 or 0.85 the model can  *)
(* reach is an integer.                                                    *)

\* mark_result / amark_result calls made on one proxy
MaxMarks == 3

\* 20 ^ MaxMarks: each call divides by 20 once
WeightScale == 20 ^ MaxMarks * 100
RateScale == 20 ^ MaxMarks * 2

\* the bounds of mark_success and mark_failed: 10.0 and 0.1
MaxWeight == 10 * WeightScale
MinWeight == WeightScale \div 10

Min(a, b) == IF a <= b THEN a ELSE b
Max(a, b) == IF a >= b THEN a ELSE b

\* the weights a Proxy is built with, in hundredths: 0.05, 0.1, 0.2, 2.0, 9.6,
\* 10.0, 20.0, and 0 for weight=0 or no weight given
StartWeights == {0, 5, 10, 20, 200, 960, 1000, 2000}

\* Proxy.__init__: self._weight = weight or 1.0
InitWeight(hundredths) ==
    IF hundredths = 0 THEN WeightScale ELSE hundredths * (WeightScale \div 100)

\* success_rate is None (0 here) or 0.5 when the Proxy is built
NoRate == 0
StartRates == {NoRate, RateScale \div 2}
\* latency in tenths of a second: None (0 here) or 0.5
NoLatency == 0
Latencies == {NoLatency, 5}

\* self.weight * 0.85 and self.weight * 1.05
Decayed(w) == (w \div 20) * 17
Grown(w) == (w \div 20) * 21

\* Proxy.mark_failed: the weight it stores
FailedWeightNoFloor(w) == Decayed(w)
FailedWeight(w) == Max(MinWeight, Decayed(w))

\* Proxy.mark_success: the weight it stores
SuccessWeightNoCap(w) == Grown(w)
SuccessWeight(w) == Min(MaxWeight, Grown(w))

\* Proxy.mark_failed
MarkFailed(p) ==
    [p EXCEPT !.failures = @ + 1, !.weight = FailedWeight(p.weight)]

\* Proxy.mark_success
MarkSuccessResetsFailures(p, latency) ==
    [p EXCEPT !.latency = IF latency # NoLatency THEN latency ELSE @,
              !.failures = 0,
              !.success_rate = ((IF @ = NoRate THEN RateScale ELSE @) \div 20) * 19
                                   + RateScale \div 20,
              !.weight = SuccessWeight(p.weight)]
MarkSuccess(p, latency) ==
    [p EXCEPT !.latency = IF latency # NoLatency THEN latency ELSE @,
              !.failures = Max(0, @ - 1),
              !.success_rate = ((IF @ = NoRate THEN RateScale ELSE @) \div 20) * 19
                                   + RateScale \div 20,
              !.weight = SuccessWeight(p.weight)]

\* ProxyRotator._update_proxy_stats
UpdateProxyStats(p, success, latency) ==
    IF success THEN MarkSuccess(p, latency) ELSE MarkFailed(p)

\* ProxyRotator.mark_result (async = FALSE) and amark_result (async = TRUE), run
\* to completion under the lock
MarkResult(async, success, latency) ==
    /\ lastMark.n < MaxMarks
    /\ proxy' = UpdateProxyStats(proxy, success, latency)
    /\ lastMark' = [n |-> lastMark.n + 1, async |-> async, success |-> success,
                    before |-> proxy.weight]

InitProxy ==
    /\ \E w \in StartWeights, r \in StartRates :
         proxy = [weight |-> InitWeight(w), failures |-> 0, success_rate |-> r,
                  latency |-> NoLatency]
    /\ lastMark = [n |-> 0, async |-> FALSE, success |-> FALSE, before |-> 0]
    /\ TlsIdle
    /\ PairIdle
    /\ ExtraIdle
    /\ LifeIdle
    /\ LockIdle
    /\ RotIdle
    /\ HdrIdle
    /\ CliIdle

NextProxy ==
    /\ \E a \in BOOLEAN, ok \in BOOLEAN, l \in Latencies : MarkResult(a, ok, l)
    /\ UNCHANGED <<rotVars, hdrVars, cliVars, tlsVars, life, lockVars, pairVars, extraVars>>

SpecProxy == InitProxy /\ [][NextProxy]_vars

\* C16 as claimed: every mark_result(success=True) strictly increases the weight
\* and leaves it at most 10.0; every mark_result(success=False) strictly decreases
\* it and leaves it at least 0.1.
C16_StrictlyMonotone ==
    lastMark.n > 0 =>
        IF lastMark.success
          THEN proxy.weight > lastMark.before /\ proxy.weight <= MaxWeight
          ELSE proxy.weight < lastMark.before /\ proxy.weight >= MinWeight

\* C16 as amended: a success leaves the weight at most 10.0, strictly above what
\* it was when that was below 10.0 and at 10.0 otherwise; a failure leaves the
\* weight at least 0.1, strictly below what it was when that was above 0.1 and
\* at 0.1 otherwise.
C16_MonotoneUntilBound ==
    lastMark.n > 0 =>
        IF lastMark.success
          THEN /\ proxy.weight <= MaxWeight
               /\ IF lastMark.before < MaxWeight
                    THEN proxy.weight > lastMark.before
                    ELSE proxy.weight = MaxWeight
          ELSE /\ proxy.weight >= MinWeight
               /\ IF lastMark.before > MinWeight
                    THEN proxy.weight < lastMark.before
                    ELSE proxy.weight = MinWeight

\* a weight of 9.6 that a success took to 10.0, where the next success left it
C16_Witness ==
    /\ lastMark.n = 2
    /\ lastMark.success
    /\ lastMark.before = MaxWeight
    /\ proxy.weight = MaxWeight

\* a weight within [0.1, 10.0]
InRange(w) == MinWeight <= w /\ w <= MaxWeight

\* C23 as claimed: after any sequence of mark_result/amark_result calls on a
\* proxy its weight lies in [0.1, 10.0].
C23_WeightInRange ==
    lastMark.n > 0 => InRange(proxy.weight)

\* C23 as amended: a weight that lies in [0.1, 10.0], as the weight of a proxy
\* built with a weight in that range does, lies in [0.1, 10.0] after every
\* mark_result/amark_result call, so after any sequence of them.
C23_WeightStaysInRange ==
    [][(lastMark'.n > lastMark.n /\ InRange(proxy.weight)) => InRange(proxy'.weight)]_vars

\* a weight of 0.1 after a failure that found it at 0.1, two calls or more
\* after the proxy was built
C23_Witness ==
    /\ lastMark.n >= 2
    /\ ~lastMark.success
    /\ lastMark.before = MinWeight
    /\ proxy.weight = MinWeight

----------------------------------------------------------------------------
(* The rotator's locks: models/rotators.py.  Several callers share one     *)
(* ProxyRotator that holds one proxy.  A synchronous caller runs in a      *)
(* thread of its own and takes self._lock; asynchronous callers run as     *)
(* tasks of an event loop in another thread and take self._async_lock.     *)
(* A call is followed from the `with` statement to the release of the      *)
(* lock; the statements of Proxy.mark_failed and mark_success are followed *)
(* attribute by attribute, a read and then a write.                        *)

\* the callers that share the rotator, each making one call
MaxCallers == 2
Callers == 1..MaxCallers

\* the lock a caller takes: self._lock or self._async_lock
LockOf(async) == IF async THEN "async_lock" ELSE "lock"

\* the attributes mark_failed / mark_success assign, in order
Fields(success) ==
    IF success THEN <<"latency", "failures", "success_rate", "weight">>
    ELSE <<"failures", "weight">>

\* what an attribute is assigned, given the value read for it
NewValue(f, old, success, latency) ==
    UpdateProxyStats([proxy EXCEPT ![f] = old], success, latency)[f]

NothingRead == -1

\* a caller that has not called yet
NotCalled == [pc |-> "idle"]

\* the operations on the shared rotator
RotatorCalls ==
    {[op |-> "next", arg |-> Invalid, success |-> FALSE, latency |-> NoLatency]}
    \cup {[op |-> o, arg |-> 2, success |-> FALSE, latency |-> NoLatency] : o \in {"add", "remove"}}
    \cup {[op |-> "mark_result", arg |-> 1, success |-> ok, latency |-> IF ok THEN 5 ELSE NoLatency] :
             ok \in BOOLEAN}

\* the call reaches its `with self._lock:` / `async with self._async_lock:`
Call(c, async, rc) ==
    /\ caller[c].pc = "idle"
    /\ caller' = [caller EXCEPT ![c] =
          [pc |-> "waiting", async |-> async, op |-> rc.op, arg |-> rc.arg,
           success |-> rc.success, latency |-> rc.latency, todo |-> <<>>, tmp |-> NothingRead]]
    /\ UNCHANGED <<locks, rotVars, prxVars>>

\* the lock is acquired
AcquireNoExclusion(c) ==
    /\ caller[c].pc = "waiting"
    /\ locks' = [locks EXCEPT ![LockOf(caller[c].async)] = c]
    /\ caller' = [caller EXCEPT ![c].pc = "inside",
                                ![c].todo = IF caller[c].op = "mark_result"
                                              THEN Fields(caller[c].success) ELSE <<>>]
    /\ UNCHANGED <<rotVars, prxVars>>
Acquire(c) ==
    /\ caller[c].pc = "waiting"
    /\ locks[LockOf(caller[c].async)] = 0
    /\ locks' = [locks EXCEPT ![LockOf(caller[c].async)] = c]
    /\ caller' = [caller EXCEPT ![c].pc = "inside",
                                ![c].todo = IF caller[c].op = "mark_result"
                                              THEN Fields(caller[c].success) ELSE <<>>]
    /\ UNCHANGED <<rotVars, prxVars>>

\* the body of next/anext, add/aadd, remove/aremove
Body(c) ==
    /\ caller[c].pc = "inside"
    /\ \/ caller[c].op = "next" /\ RotNext(caller[c].async)
       \/ caller[c].op = "add" /\ RotAdd(caller[c].async, caller[c].arg)
       \/ caller[c].op = "remove" /\ RotRemove(caller[c].async, caller[c].arg)
    /\ caller' = [caller EXCEPT ![c].pc = "leaving"]
    /\ UNCHANGED <<locks, prxVars>>

\* mark_failed / mark_success: the attribute is read
ReadField(c) ==
    /\ caller[c].pc = "inside"
    /\ caller[c].todo # <<>>
    /\ caller[c].tmp = NothingRead
    /\ caller' = [caller EXCEPT ![c].tmp = proxy[Head(caller[c].todo)]]
    /\ UNCHANGED <<locks, rotVars, prxVars>>

\* mark_failed / mark_success: the attribute is assigned
WriteField(c) ==
    /\ caller[c].pc = "inside"
    /\ caller[c].todo # <<>>
    /\ caller[c].tmp # NothingRead
    /\ LET f == Head(caller[c].todo)
       IN proxy' = [proxy EXCEPT ![f] =
                       NewValue(f, caller[c].tmp, caller[c].success, caller[c].latency)]
    /\ caller' = [caller EXCEPT ![c].todo = Tail(@), ![c].tmp = NothingRead]
    /\ UNCHANGED <<locks, rotVars, lastMark>>

\* _update_proxy_stats: if self.strategy == "weighted": self._rebuild_iterator()
Rebuild(c) ==
    /\ caller[c].pc = "inside"
    /\ caller[c].op = "mark_result"
    /\ caller[c].todo = <<>>
    /\ iterator' = IF strategy = "weighted"
                     THEN RebuildIterator(items, strategy, iterator) ELSE iterator
    /\ caller' = [caller EXCEPT ![c].pc = "leaving"]
    /\ UNCHANGED <<kind, items, strategy, viaFile, lastOp, result, results, locks, prxVars>>

\* the `with` block is left: the lock is released
ReleaseUnlessRaised(c) ==
    /\ caller[c].pc = "leaving"
    /\ locks' = IF caller[c].op = "next" /\ result = ValueError
                 THEN locks ELSE [locks EXCEPT ![LockOf(caller[c].async)] = 0]
    /\ caller' = [caller EXCEPT ![c].pc = "done"]
    /\ lastMark' = IF caller[c].op = "mark_result"
                     THEN [lastMark EXCEPT !.n = @ + 1] ELSE lastMark
    /\ UNCHANGED <<rotVars, proxy>>
Release(c) ==
    /\ caller[c].pc = "leaving"
    /\ locks' = [locks EXCEPT ![LockOf(caller[c].async)] = 0]
    /\ caller' = [caller EXCEPT ![c].pc = "done"]
    /\ lastMark' = IF caller[c].op = "mark_result"
                     THEN [lastMark EXCEPT !.n = @ + 1] ELSE lastMark
    /\ UNCHANGED <<rotVars, proxy>>

InitLock ==
    /\ \E s \in {"round_robin", "weighted"} : Direct("ProxyRotator", <<1>>, s)
    /\ proxy = [weight |-> InitWeight(200), failures |-> 0, success_rate |-> NoRate,
                latency |-> NoLatency]
    /\ lastMark = [n |-> 0, async |-> FALSE, success |-> FALSE, before |-> InitWeight(200)]
    /\ locks = [lock |-> 0, async_lock |-> 0]
    /\ caller = [c \in Callers |-> NotCalled]
    /\ TlsIdle
    /\ PairIdle
    /\ ExtraIdle
    /\ LifeIdle
    /\ HdrIdle
    /\ CliIdle

NextLock ==
    /\ \E c \in Callers :
         \/ \E a \in BOOLEAN, rc \in RotatorCalls : Call(c, a, rc)
         \/ Acquire(c)
         \/ Body(c)
         \/ ReadField(c)
         \/ WriteField(c)
         \/ Rebuild(c)
         \/ Release(c)
    /\ UNCHANGED <<hdrVars, cliVars, tlsVars, life, pairVars, extraVars>>

SpecLock == InitLock /\ [][NextLock]_vars

\* a caller between acquiring its lock and releasing it
InCriticalSection(c) == caller[c].pc \in {"inside", "leaving"}

\* C14: no two callers are inside the locked sections of next/add/remove/
\* mark_result or anext/aadd/aremove/amark_result of one rotator at the same time.
C14_MutualExclusion ==
    \A c1, c2 \in Callers :
        (InCriticalSection(c1) /\ InCriticalSection(c2)) => c1 = c2

RECURSIVE DecayedTimes(_, _)
\* the failure decay applied k times
DecayedTimes(w, k) == IF k = 0 THEN w ELSE DecayedTimes(FailedWeight(w), k - 1)

\* C15: when k mark_result/amark_result calls with success=False on one proxy have
\* all returned, its failures have grown by k and its weight is the starting
\* weight with the failure decay applied k times.
C15_NoLostUpdate ==
    (\A c \in Callers : /\ caller[c].pc = "done"
                         /\ caller[c].op = "mark_result"
                         /\ ~caller[c].success) =>
        /\ proxy.failures = MaxCallers
        /\ proxy.weight = DecayedTimes(lastMark.before, MaxCallers)

----------------------------------------------------------------------------
(* The request a client call builds and what send() does with it before    *)
(* the first dispatch (client.py: build_request, prepare_*, prepare_auth,  *)
(* build_hook_request, send).  The client's default headers, cookies and   *)
(* params and the containers of every request live in the heap of the      *)
(* Headers section: a cookie jar maps a name to a Cookie object and a      *)
(* URLParams dict maps a key to a value, both kept as [key, ref] pairs     *)
(* whose refs point into `lists`.                                          *)

\* client calls followed
MaxRequests == 2

\* settings.DEFAULT_HEADERS
DEFAULT_HEADERS ==
    <<[k |-> "accept", v |-> <<"*/*">>],
      [k |-> "connection", v |-> <<"keep-alive">>],
      [k |-> "user-agent", v |-> <<"Python-TLS-Requests">>],
      [k |-> "accept-encoding", v |-> <<"gzip, deflate, br, zstd">>]>>

\* headers=None, cookies=None, params=None
NoMapping == <<>>
\* the mappings a client is constructed with
ClientHeaders == <<[k |-> "Accept", v |-> StrAccept]>>
ClientCookies == <<[k |-> "sid", v |-> <<"s1">>]>>
ClientParams == <<[k |-> "q", v |-> <<"tea">>]>>
\* the mappings a call is given: one key of the client's and one of its own
CallHeaders == <<[k |-> "Accept", v |-> StrCustom], [k |-> "X-Call", v |-> <<"1">>]>>
CallCookies == <<[k |-> "sid", v |-> <<"s2">>], [k |-> "tok", v |-> <<"t">>]>>
CallParams == <<[k |-> "q", v |-> <<"milk">>], [k |-> "page", v |-> <<"2">>]>>

\* auth=None, auth=(username, password), auth=a callable
NoAuth == "None"
BasicTuple == "tuple"
CallableAuth == "callable"
\* the Authorization value BasicAuth builds
StrBasic == <<"Basic dXNlcjpwYXNz">>

\* an entry of hooks["request"] that is not callable
NotCallable == "not_callable"
\* the lists registered as hooks["request"]
HookLists ==
    { <<>>, <<"h1">>, <<"h1", "h2">>, <<"h2", "h1">>, <<NotCallable, "h2">> }

\* a new empty container: Headers(None), RequestsCookieJar(), {}
NewObject(hp) == [hp EXCEPT !.objs = Append(@, <<>>)]

\* d[k] = val on a cookie jar or a URLParams dict: the key now refers to the
\* new value object
Assign(hp, o, k, val) ==
    LET i == IndexOf(hp.objs[o], k)
        r == Len(hp.lists) + 1
    IN [objs |-> [hp.objs EXCEPT ![o] = IF i = 0 THEN Append(@, [k |-> k, ref |-> r])
                                         ELSE [@ EXCEPT ![i].ref = r]],
        lists |-> Append(hp.lists, val)]

RECURSIVE PopAll(_, _, _)
\* Headers.update, first loop: every key of the argument held by self is popped
PopAll(hp, o, m) ==
    IF m = <<>> THEN hp ELSE PopAll(DelItem(hp, o, Head(m).k), o, Tail(m))

\* Headers.update: Headers(headers) normalises the argument into new lists,
\* its keys are popped from self, its pairs are appended to self._items
HeadersUpdate(hp, o, m) ==
    LET popped == PopAll(hp, o, m)
        n == Len(popped.lists)
    IN [objs |-> [popped.objs EXCEPT ![o] =
                     @ \o [i \in 1..Len(m) |-> [k |-> NormalizeKey(m[i].k), ref |-> n + i]]],
        lists |-> popped.lists \o [i \in 1..Len(m) |-> NormalizeValue(m[i].v)]]

RECURSIVE FillDefaults(_, _, _)
FillDefaults(hp, o, d) ==
    IF d = <<>> THEN hp
    ELSE FillDefaults(IF IndexOf(hp.objs[o], NormalizeKey(Head(d).k)) = 0
                        THEN SetItem(hp, o, Head(d).k, Head(d).v) ELSE hp,
                      o, Tail(d))

\* BaseClient.headers (the property): every key of DEFAULT_HEADERS the stored
\* headers lack is set on them, and the stored object itself is returned
HeadersProperty(hp, o) == FillDefaults(hp, o, DEFAULT_HEADERS)

\* BaseClient.prepare_headers: self.headers.copy().update(headers)
PrepareHeaders(hp, cl, headers) ==
    LET copied == Copy(HeadersProperty(hp, cl.headers), cl.headers)
        merged_headers == Len(copied.objs)
    IN [hp |-> HeadersUpdate(copied, merged_headers, headers), obj |-> merged_headers]

\* RequestsCookieJar.copy: a new jar that is given copy.copy of every cookie
CookiesCopy(hp, o) ==
    LET its == hp.objs[o]
        n == Len(hp.lists)
    IN [objs |-> Append(hp.objs, [i \in 1..Len(its) |-> [k |-> its[i].k, ref |-> n + i]]),
        lists |-> hp.lists \o [i \in 1..Len(its) |-> hp.lists[its[i].ref]]]

RECURSIVE CookiesUpdate(_, _, _)
\* Cookies.update: _prepare_cookiejar makes a jar of the argument and
\* RequestsCookieJar.update sets a copy of each of its cookies on self's jar
CookiesUpdate(hp, o, m) ==
    IF m = <<>> THEN hp
    ELSE CookiesUpdate(Assign(hp, o, Head(m).k, <<Head(m).v>>), o, Tail(m))

\* BaseClient.prepare_cookies: self.cookies.copy().update(cookies)
PrepareCookiesNoCopy(hp, cl, cookies) ==
    [hp |-> CookiesUpdate(hp, cl.cookies, cookies), obj |-> cl.cookies]
PrepareCookies(hp, cl, cookies) ==
    LET copied == CookiesCopy(hp, cl.cookies)
        merged_cookies == Len(copied.objs)
    IN [hp |-> CookiesUpdate(copied, merged_cookies, cookies), obj |-> merged_cookies]

\* URLParams.copy: URLParams(self._data.copy()); _prepare normalises every
\* value of the new dict into a new string or a new list
ParamsCopy(hp, o) ==
    LET its == hp.objs[o]
        n == Len(hp.lists)
    IN [objs |-> Append(hp.objs, [i \in 1..Len(its) |-> [k |-> its[i].k, ref |-> n + i]]),
        lists |-> hp.lists \o [i \in 1..Len(its) |-> hp.lists[its[i].ref]]]

RECURSIVE ParamsUpdate(_, _, _)
\* URLParams.update: self._data.update(self._prepare(params))
ParamsUpdate(hp, o, m) ==
    IF m = <<>> THEN hp
    ELSE ParamsUpdate(Assign(hp, o, Head(m).k, <<Head(m).v>>), o, Tail(m))

\* BaseClient.prepare_params: self.params.copy().update(params)
PrepareParams(hp, cl, params) ==
    LET copied == ParamsCopy(hp, cl.params)
        merged_params == Len(copied.objs)
    IN [hp |-> ParamsUpdate(copied, merged_params, params), obj |-> merged_params]

\* BaseClient.build_request and Request.__init__ for a request without a body:
\* url.params wraps the merged URLParams, Cookies(cookies) takes the merged
\* Cookies' own jar, Headers(headers) is a new object with new lists (the
\* stream headers are empty, and setdefault("Host") writes nothing because
\* Headers.__getitem__ never raises KeyError)
BuildRequest(hp, cl, headers, cookies, params) ==
    LET p == PrepareParams(hp, cl, params)
        h == PrepareHeaders(p.hp, cl, headers)
        c == PrepareCookies(h.hp, cl, cookies)
        made == Copy(c.hp, h.obj)
    IN [hp |-> made,
        request |-> [params |-> p.obj, cookies |-> c.obj, headers |-> Len(made.objs)]]

\* what a callable that is given the request does to it: it sets X-Hook and
\* Accept on request.headers (an existing list is extended in place), sets the
\* value of every cookie of request.cookies in place, and assigns
\* request.url.params["q"]; it returns None or the request it was given
Touch(hp, request, tag) ==
    LET h == SetItem(SetItem(hp, request.headers, "X-Hook", tag),
                     request.headers, "Accept", tag)
        c == [h EXCEPT !.lists = [r \in 1..Len(h.lists) |->
                                     IF r \in Refs(h, request.cookies)
                                       THEN <<tag>> ELSE h.lists[r]]]
    IN Assign(c, request.params, "q", <<tag>>)

\* BaseClient.prepare_auth
PrepareAuth(hp, request, auth) ==
    CASE auth = BasicTuple ->
           [hp |-> SetItem(hp, request.headers, "Authorization", StrBasic),
            ran |-> <<"auth">>]
      [] auth = CallableAuth ->
           [hp |-> Touch(hp, request, <<"auth">>), ran |-> <<"auth">>]
      [] OTHER -> [hp |-> hp, ran |-> <<>>]

\* BaseClient._rebuild_hooks: the callable entries of hooks["request"]
RebuildHooks(hooks) == SelectSeq(hooks, LAMBDA func : func # NotCallable)

\* BaseClient.build_hook_request: the loop returns hook(request) at the first
\* callable hook
BuildHookRequest(hp, request, hooks) ==
    LET request_hooks == RebuildHooks(hooks)
    IN IF request_hooks = <<>> THEN [hp |-> hp, ran |-> <<>>]
       ELSE [hp |-> Touch(hp, request, <<request_hooks[1]>>),
             ran |-> <<request_hooks[1]>>]

RECURSIVE RefsInOrder(_, _)
\* the refs the objects `roots` hold, in order
RefsInOrder(hp, roots) ==
    IF roots = <<>> THEN <<>>
    ELSE [i \in 1..Len(hp.objs[Head(roots)]) |-> hp.objs[Head(roots)][i].ref]
            \o RefsInOrder(hp, Tail(roots))

RECURSIVE Uniq(_)
\* q without the later occurrences of its elements
Uniq(q) ==
    IF q = <<>> THEN <<>>
    ELSE LET rest == Uniq(SubSeq(q, 1, Len(q) - 1))
         IN IF q[Len(q)] \in SeqRange(rest) THEN rest ELSE Append(rest, q[Len(q)])

\* the first index of q that holds x
Position(q, x) == CHOOSE i \in 1..Len(q) : q[i] = x /\ \A j \in 1..(i - 1) : q[j] # x

\* the heap once request() has returned: the merged Headers and the request of
\* the call before are unreachable and freed, the objects `roots` are numbered
\* in the order of roots and the lists they hold in the order they hold them
Collected(hp, roots) ==
    LET kept == Uniq(roots)
        live == Uniq(RefsInOrder(hp, kept))
    IN [objs |-> [n \in 1..Len(kept) |->
                    [i \in 1..Len(hp.objs[kept[n]]) |->
                       [k |-> hp.objs[kept[n]][i].k,
                        ref |-> Position(live, hp.objs[kept[n]][i].ref)]]],
        lists |-> [j \in 1..Len(live) |-> hp.lists[live[j]]]]

\* a request that is no longer reachable
Released == [params |-> 0, cookies |-> 0, headers |-> 0]

\* Client.request / AsyncClient.request: build_request, then send() up to the
\* first dispatch
ClientRequest(async, headers, cookies, params, auth) ==
    /\ Len(handed) < MaxRequests
    /\ \E used \in {IF auth # NoAuth THEN auth ELSE client.auth} :
       \E built \in {BuildRequest(Heap, client, headers, cookies, params)} :
       \E authed \in {PrepareAuth(built.hp, built.request, used)} :
       \E hooked \in {BuildHookRequest(authed.hp, built.request, client.hooks)} :
         LET request == built.request
             roots == <<client.headers, client.cookies, client.params,
                        request.params, request.cookies, request.headers>>
         IN \E hp \in {Collected(hooked.hp, roots)} :
              /\ objs' = hp.objs
              /\ lists' = hp.lists
              /\ handed' = Append([n \in 1..Len(handed) |-> Released],
                                  [params |-> Position(roots, request.params),
                                   cookies |-> Position(roots, request.cookies),
                                   headers |-> Position(roots, request.headers)])
              /\ client' = [client EXCEPT !.state = "OPENED"]
              /\ call' = <<[pc |-> "dispatched", async |-> async, auth |-> used,
                            given |-> [headers |-> headers, cookies |-> cookies,
                                       params |-> params],
                            ran |-> authed.ran \o hooked.ran \o <<"dispatch">>]>>
    /\ UNCHANGED <<stored0, writes, engine>>

\* the client's defaults as a caller reads them: client.headers, client.cookies,
\* client.params
Defaults(hp, cl) ==
    [headers |-> Contents(HeadersProperty(hp, cl.headers), cl.headers),
     cookies |-> Contents(hp, cl.cookies),
     params |-> Contents(hp, cl.params)]

\* BaseClient.__init__: Headers(headers), Cookies(cookies), URLParams(params)
InitReq ==
    /\ \E given \in BOOLEAN, hooks \in HookLists, auth \in {NoAuth, BasicTuple} :
         LET h == HeadersUpdate(NewObject([objs |-> <<>>, lists |-> <<>>]), 1,
                                IF given THEN ClientHeaders ELSE NoMapping)
             c == CookiesUpdate(NewObject(h), 2, IF given THEN ClientCookies ELSE NoMapping)
             p == ParamsUpdate(NewObject(c), 3, IF given THEN ClientParams ELSE NoMapping)
             cl == [state |-> "UNOPENED", headers |-> 1, cookies |-> 2, params |-> 3,
                    hooks |-> hooks, auth |-> auth]
         IN /\ objs = p.objs
            /\ lists = p.lists
            /\ client = cl
            /\ stored0 = Defaults(p, cl)
    /\ handed = <<>>
    /\ writes = 0
    /\ engine = [destroyed |-> {}]
    /\ call = <<IdleCall>>
    /\ RotIdle
    /\ RestIdle

NextReq ==
    /\ \E a \in BOOLEAN,
          headers \in {NoMapping, CallHeaders},
          cookies \in {NoMapping, CallCookies},
          params \in {NoMapping, CallParams},
          auth \in {NoAuth, CallableAuth} :
         ClientRequest(a, headers, cookies, params, auth)
    /\ UNCHANGED <<rotVars, restVars>>

SpecReq == InitReq /\ [][NextReq]_vars

C18_AuthThenEveryHook ==
    (call[1].pc = "dispatched") =>
        call[1].ran = (IF call[1].auth = NoAuth THEN <<>> ELSE <<"auth">>)
                        \o RebuildHooks(client.hooks) \o <<"dispatch">>

----------------------------------------------------------------------------
(* A Client and an AsyncClient built with the same arguments, given the    *)
(* same request and fed the same engine replies (client.py: Client.send,   *)
(* BaseClient._send, AsyncClient.send, AsyncClient._send).  The helpers of *)
(* BaseClient (_rebuild_redirect_url, _rebuild_redirect_method) are the    *)
(* operators of the client section; the two send/_send pairs are           *)
(* translated each from its own code.                                      *)

\* is_break = bool(len(history) < self.max_redirects) in AsyncClient._send
AIsBreak(history, cl) == Len(history) < cl.max_redirects

\* Response.from_tls_response, then await response.aread() and
\* await response.aclose() (which calls close()) in AsyncClient.send
AReturnedResponse(id, reply, history) ==
    [kind |-> "response", id |-> id, status_code |-> reply.status, history |-> history,
     read |-> TRUE, closed |-> TRUE]

\* AsyncClient.send up to the first dispatch
ASend(method, url, follow_redirects) ==
    /\ acall.pc = "idle"
    /\ UNCHANGED aengine
    /\ IF aclient.state = "CLOSED"
         THEN /\ acall' = [pc |-> "done", follow |-> follow_redirects, history |-> <<>>,
                           replies |-> <<>>, dispatches |-> 0,
                           outcome |-> Raised("RuntimeError")]
              /\ UNCHANGED aclient
         ELSE LET cl == [aclient EXCEPT !.state = "OPENED",
                                        !.follow_redirects = follow_redirects]
              IN /\ aclient' = cl
                 /\ acall' = Dispatched(method, url, follow_redirects, cl, <<>>, <<>>, 1)

\* AsyncClient._send from the engine's reply on, and the rest of
\* AsyncClient.send when _send returns
AReply(reply) ==
    /\ acall.pc = "inflight"
    /\ LET c == [acall EXCEPT !.replies = Logged(@, reply, aclient)]
           response == [id |-> c.dispatches, status_code |-> reply.status,
                        method |-> c.method]
       IN IF IsRedirect(reply)
            THEN LET rebuilt == RebuildRedirectUrl(c.url, reply.location, aclient, aengine)
                     method == RebuildRedirectMethod(c.method, reply.status)
                 IN /\ aclient' = rebuilt.client
                    /\ aengine' = rebuilt.engine
                    /\ IF rebuilt.error # "none"
                         THEN acall' = Ended(c, Raised(rebuilt.error))
                       ELSE IF ~aclient.follow_redirects
                         THEN acall' = Ended(c, AReturnedResponse(response.id, reply, c.history))
                       ELSE IF ~AIsBreak(c.history, aclient)
                         THEN acall' = Ended(c, Raised("TooManyRedirects"))
                       ELSE acall' = Dispatched(method, rebuilt.url, c.follow, rebuilt.client,
                                                Append(c.history, response), c.replies,
                                                Count(c.dispatches, aclient))
            ELSE /\ acall' = Ended(c, AReturnedResponse(response.id, reply, c.history))
                 /\ UNCHANGED <<aclient, aengine>>

\* the same request is sent through both clients
PairSend(method, url, follow_redirects) ==
    /\ Send(1, method, url, follow_redirects)
    /\ ASend(method, url, follow_redirects)

\* the engine gives the same reply to every send that waits for one
PairReply(reply) ==
    /\ call[1].pc = "inflight" \/ acall.pc = "inflight"
    /\ IF call[1].pc = "inflight" THEN Reply(1, reply) ELSE UNCHANGED cliVars
    /\ IF acall.pc = "inflight" THEN AReply(reply) ELSE UNCHANGED pairVars

\* BaseClient.__init__ with the same arguments for both clients
InitPair ==
    /\ \E m \in 0..MaxRedirects, h2 \in Http2Modes, f \in BOOLEAN :
         /\ client = [state |-> "UNOPENED", follow_redirects |-> f, max_redirects |-> m,
                      http2 |-> h2, sessionId |-> 1]
         /\ aclient = client
    /\ engine = [destroyed |-> {}, nextId |-> 2]
    /\ aengine = engine
    /\ call = [t \in Threads |-> IdleCall]
    /\ acall = IdleCall
    /\ ExtraIdle
    /\ RotIdle
    /\ HdrIdle
    /\ TlsIdle
    /\ LifeIdle
    /\ PrxIdle
    /\ LockIdle

NextPair ==
    /\ \/ \E m \in Methods, sch \in Schemes, h \in Hosts, f \in BOOLEAN :
            PairSend(m, [scheme |-> sch, host |-> h], f)
       \/ \E r \in Replies : PairReply(r)
    /\ UNCHANGED <<rotVars, hdrVars, tlsVars, life, prxVars, lockVars, extraVars>>

SpecPair == InitPair /\ [][NextPair]_vars

\* C19: for the same configuration, the same request and the same engine
\* replies, AsyncClient.send and Client.send are at every dispatch and at the
\* end in the same state: the same payload in flight (method, url, session),
\* the same sessions destroyed, the same history, the same replies seen, and
\* the same returned response state or the same error.
C19_AsyncMirrorsSync ==
    /\ acall = call[1]
    /\ aengine = engine
    /\ aclient = client

\* both sends followed a redirect across schemes, which destroyed the session,
\* and returned a response with that redirect in its history
C19_Witness ==
    /\ call[1].pc = "done"
    /\ acall.pc = "done"
    /\ acall.outcome.kind = "response"
    /\ Len(acall.history) >= 1
    /\ aengine.destroyed # {}
    /\ engine.destroyed # {}

----------------------------------------------------------------------------
(* The claim about a redirect status without a usable Location, checked    *)
(* under SpecClient                                                        *)

\* exceptions.ProtocolError and exceptions.RemoteProtocolError
ProtocolErrors == {"ProtocolError", "RemoteProtocolError"}

\* C20 as stated: a reply whose status is one of 301/302/303/307/308 and whose
\* Location is missing or malformed makes send() end by raising ProtocolError
\* or RemoteProtocolError: it is never returned as a response and never raises
\* another error.
C20_BadLocationIsProtocolError ==
    [][\A r \in Replies :
          (/\ r.status \in REDIRECT_STATUS
           /\ r.location \in {NoLocation, BadLocation}
           /\ Reply(1, r)) =>
              /\ call'[1].pc = "done"
              /\ call'[1].outcome.kind \in ProtocolErrors]_vars

\* the reply is a redirect that send() goes on to follow, from a request to
\* a URL of scheme `from` to a Location of scheme `to`
FollowedSwitch(r, from, to) ==
    /\ call[1].pc = "inflight"
    /\ call[1].follow
    /\ IsBreak(call[1].history, client)
    /\ r.status \in REDIRECT_STATUS
    /\ r.location.form = "absolute"
    /\ call[1].url.scheme = from
    /\ r.location.scheme = to

\* C28 as stated: under http2 auto or unset, a followed redirect whose target
\* scheme differs from the request's scheme has the current session destroyed
\* and the client's session id replaced by a fresh one, which the next
\* dispatch carries.
C28_SchemeChangeRenewsSession ==
    [][\A r \in Replies : \A from, to \in Schemes :
          (/\ client.http2 \in {"auto", "None"}
           /\ from # to
           /\ FollowedSwitch(r, from, to)
           /\ Reply(1, r)) =>
              /\ client.sessionId \in engine'.destroyed
              /\ client'.sessionId # client.sessionId
              /\ client'.sessionId \notin engine'.destroyed
              /\ call'[1].pc = "inflight"
              /\ call'[1].sessionId = client'.sessionId]_vars

\* C29 as stated: under a pinned http2 mode, a redirect from an http URL to an
\* https Location makes send() raise ProtocolError or RemoteProtocolError and
\* dispatch nothing further.
C29_PinnedUpgradeRaises ==
    [][\A r \in Replies :
          (/\ client.http2 \notin {"auto", "None"}
           /\ FollowedSwitch(r, "http", "https")
           /\ Reply(1, r)) =>
              /\ call'[1].pc = "done"
              /\ call'[1].outcome.kind \in ProtocolErrors]_vars

\* C30 as stated: a redirect from an https URL to an http Location is followed
\* without raising under every http2 mode, and the next dispatch goes to the
\* http URL.
C30_DowngradeFollowed ==
    [][\A r \in Replies :
          (/\ FollowedSwitch(r, "https", "http")
           /\ Reply(1, r)) =>
              /\ call'[1].pc = "inflight"
              /\ call'[1].url = [scheme |-> "http", host |-> r.location.host]]_vars

\* C35: when follow_redirects is false for a call, a redirect response is
\* returned as the terminal response with an empty history after exactly one
\* dispatch, no engine session is destroyed, the client's session id is
\* unchanged and no error is raised, whatever the scheme of a Location that
\* URL() accepts.
C35_UnfollowedRedirectIsInert ==
    [][\A r \in Replies :
          (/\ call[1].pc = "inflight"
           /\ ~call[1].follow
           /\ IsRedirect(r)
           /\ r.location # BadLocation
           /\ Reply(1, r)) =>
              /\ call'[1].pc = "done"
              /\ call'[1].outcome.kind = "response"
              /\ call'[1].outcome.history = <<>>
              /\ call'[1].dispatches = 1
              /\ engine'.destroyed = engine.destroyed
              /\ client'.sessionId = client.sessionId]_vars

----------------------------------------------------------------------------
(* The end of send(): the response hooks or the eager read, then the close *)
(* (client.py: build_hook_response, Client.send 484-492, AsyncClient.send  *)
(* 980-989; response.py: read, aread, close, aclose).  A response carries  *)
(* the calls made on it in `events`.                                       *)

\* the lists registered as hooks["response"]: a hook that returns None, one
\* that returns the response it was given, one that returns a Response of its
\* own, the hook of test_response_hook, and an entry that is not callable
ResponseHookLists ==
    { <<>>, <<"log">>, <<"same">>, <<"fresh">>, <<"raise_on_4xx_5xx">>,
      <<NotCallable>>, <<"log", "fresh">> }

\* the replies the engine gives in this part
RespReplies ==
    {[status |-> st, location |-> NoLocation] : st \in {0, 200, 404, FOUND}}
       \cup {[status |-> FOUND, location |-> PathLocation]}

\* Response.__init__ / Response.from_tls_response: nothing read, not closed
FromTlsResponse(id, reply, history) ==
    [kind |-> "response", id |-> id, status_code |-> reply.status, history |-> history,
     read |-> FALSE, closed |-> FALSE, events |-> <<>>]

\* Response.read / Response.aread: the whole stream is joined into _content
Read(response) ==
    [response EXCEPT !.read = TRUE, !.events = Append(@, "read")]

\* Response.close (Response.aclose calls it): only a response not yet closed
\* is closed
CloseKeepsOpen(response) == response
ResponseClose(response) ==
    IF ~response.closed
      THEN [response EXCEPT !.closed = TRUE, !.events = Append(@, "close")]
      ELSE response

\* Response.raise_for_status: whether it raises HTTPError
RaisesForStatus(status_code) ==
    \/ status_code < 100
    \/ 400 <= status_code /\ status_code < 500
    \/ 500 <= status_code /\ status_code < 600

\* what a response hook returns or raises
HookResult(hook, response) ==
    CASE hook = "same" -> response
      [] hook = "fresh" -> FromTlsResponse(0, [status |-> 200], <<>>)
      [] hook = "raise_on_4xx_5xx" ->
           IF RaisesForStatus(response.status_code) THEN Raised("HTTPError")
           ELSE [kind |-> "None"]
      [] OTHER -> [kind |-> "None"]

\* BaseClient.build_hook_response: the loop returns hook(response) at the first
\* callable hook
BuildHookResponse(response, hooks) ==
    LET response_hooks == RebuildHooks(hooks)
    IN IF response_hooks = <<>> THEN [kind |-> "None"]
       ELSE HookResult(response_hooks[1], response)

\* Client.send / AsyncClient.send once _send has returned `response`: what
\* send returns or raises
SendTail(response, cl) ==
    IF cl.hooks # <<>>
      THEN LET response_ == BuildHookResponse(response, cl.hooks)
           IN IF response_.kind = "HTTPError" THEN response_
              ELSE IF response_.kind = "response" THEN ResponseClose(response_)
              ELSE ResponseClose(response)
      ELSE ResponseClose(Read(response))

\* BaseClient._send / AsyncClient._send from the engine's reply on, and the
\* rest of send() when _send returns a response
RespReply(t, async, reply) ==
    /\ call[t].pc = "inflight"
    /\ IF IsRedirect(reply) /\ client.follow_redirects
         THEN Reply(t, reply)
         ELSE LET c == [call[t] EXCEPT !.replies = Logged(@, reply, client)]
                  rebuilt == IF IsRedirect(reply)
                               THEN RebuildRedirectUrl(c.url, reply.location, client, engine)
                               ELSE [error |-> "none", client |-> client, engine |-> engine]
              IN /\ client' = rebuilt.client
                 /\ engine' = rebuilt.engine
                 /\ call' = [call EXCEPT ![t] =
                       Ended(c, IF rebuilt.error # "none" THEN Raised(rebuilt.error)
                                ELSE SendTail(FromTlsResponse(c.dispatches, reply, c.history),
                                              client))]

\* BaseClient.__init__ with hooks={"response": [...]}
InitResp ==
    /\ \E m \in 0..MaxRedirects, f \in BOOLEAN, hooks \in ResponseHookLists :
         client = [state |-> "UNOPENED", follow_redirects |-> f, max_redirects |-> m,
                   http2 |-> "auto", sessionId |-> 1, hooks |-> hooks]
    /\ engine = [destroyed |-> {}, nextId |-> 2]
    /\ call = [t \in Threads |-> IdleCall]
    /\ RotIdle
    /\ HdrIdle
    /\ RestIdle

NextResp ==
    /\ \/ \E m \in {"GET", "POST"}, f \in BOOLEAN :
            Send(1, m, [scheme |-> "https", host |-> "a.test"], f)
       \/ \E a \in BOOLEAN, r \in RespReplies : RespReply(1, a, r)
    /\ UNCHANGED <<rotVars, hdrVars, restVars>>

SpecResp == InitResp /\ [][NextResp]_vars

\* C21: every response send() returns is closed when send returns, and when
\* no response hook is registered its body was read in full and the response
\* closed after that.
C21_ReturnedClosedAndRead ==
    \A t \in Threads :
        (call[t].pc = "done" /\ call[t].outcome.kind = "response") =>
            /\ call[t].outcome.closed
            /\ client.hooks = <<>> =>
                   /\ call[t].outcome.read
                   /\ call[t].outcome.events = <<"read", "close">>

\* a send without response hooks returned the response that ended a followed
\* redirect chain
C21_Witness ==
    /\ call[1].pc = "done"
    /\ call[1].outcome.kind = "response"
    /\ client.hooks = <<>>
    /\ Len(call[1].history) >= 1
    /\ call[1].outcome.events = <<"read", "close">>

----------------------------------------------------------------------------
(* Several callers of next() (or of anext()) on one round-robin rotator    *)
(* that is not added to or removed from (rotators.py: BaseRotator.next,    *)
(* BaseRotator.anext).  The steps are those of the lock section; `turns`   *)
(* logs who acquired the lock, in order, and what each call was given.     *)

\* calls of next()/anext() followed
MaxTurns == 4

\* a caller reaches the `with` of next() (async = FALSE) or of anext()
\* (async = TRUE); the callers at work at one time are all of one kind
ThreadCall(c, async) ==
    /\ Len(turns.order) + Cardinality({d \in Callers : caller[d].pc = "waiting"}) < MaxTurns
    /\ \A d \in Callers : IF caller[d].pc = "idle" THEN TRUE ELSE caller[d].async = async
    /\ Call(c, async, [op |-> "next", arg |-> Invalid, success |-> FALSE,
                       latency |-> NoLatency])
    /\ UNCHANGED turns

ThreadAcquire(c) ==
    /\ Acquire(c)
    /\ turns' = [turns EXCEPT !.order = Append(@, c)]

\* the body of next()/anext(): what the caller is given
ThreadBody(c) ==
    /\ Body(c)
    /\ turns' = [turns EXCEPT !.got = Append(@, [c |-> c, val |-> result'])]

ThreadRelease(c) ==
    /\ Release(c)
    /\ UNCHANGED turns

\* the caller has its item and may call again
ThreadReturn(c) ==
    /\ caller[c].pc = "done"
    /\ caller' = [caller EXCEPT ![c] = NotCalled]
    /\ UNCHANGED <<locks, rotVars, prxVars, turns>>

InitThreads ==
    /\ \E its \in {<<1, 2>>, <<1, 2, 3>>} : Direct("ProxyRotator", its, "round_robin")
    /\ locks = [lock |-> 0, async_lock |-> 0]
    /\ caller = [c \in Callers |-> NotCalled]
    /\ turns = [order |-> <<>>, got |-> <<>>]
    /\ PrxIdle
    /\ TlsIdle
    /\ PairIdle
    /\ LifeIdle
    /\ HdrIdle
    /\ CliIdle

NextThreads ==
    /\ \E c \in Callers :
         \/ \E a \in BOOLEAN : ThreadCall(c, a)
         \/ ThreadAcquire(c)
         \/ ThreadBody(c)
         \/ ThreadRelease(c)
         \/ ThreadReturn(c)
    /\ UNCHANGED <<hdrVars, cliVars, tlsVars, life, pairVars>>

SpecThreads == InitThreads /\ [][NextThreads]_vars

\* C22: under round_robin with no add/remove, the i-th call to acquire the
\* lock is the i-th call to be given an item, and it is given
\* items[(i - 1) mod N]: the items are handed out in insertion order,
\* cyclically, none skipped and none handed out twice within a pass.
C22_ConcurrentRoundRobin ==
    /\ Len(turns.got) <= Len(turns.order)
    /\ \A i \in 1..Len(turns.got) :
         /\ turns.got[i].c = turns.order[i]
         /\ turns.got[i].val = Returned(items[((i - 1) % Len(items)) + 1])

\* more calls than items were served, by different callers in turn, and a
\* caller is waiting for the lock that the one just served still holds
C22_Witness ==
    /\ Len(turns.got) > Len(items)
    /\ \E i \in 1..(Len(turns.got) - 1) : turns.got[i].c # turns.got[i + 1].c
    /\ \E c, d \in Callers : caller[c].pc = "waiting" /\ caller[d].pc = "leaving"

----------------------------------------------------------------------------
(* The weighted sampler of a ProxyRotator (rotators.py: _rebuild_iterator, *)
(* _weighted_cycle, _update_proxy_stats).  The rotator holds proxies of a  *)
(* pool; `proxy` maps each proxy of the pool to its statistics, and the    *)
(* iterator keeps the population and the list of weights it was built      *)
(* with.  Every call runs to completion under the rotator's lock.          *)

\* the proxies the caller has built
Pool == {1, 2}

\* weights = [getattr(item, "weight", 1.0) for item in self.items]
WeightsOf(its, prx) == [i \in 1..Len(its) |-> prx[its[i]].weight]

\* BaseRotator._rebuild_iterator under the weighted strategy
RebuildWeighted(its, prx) ==
    IF its = <<>> THEN NoIterator
    ELSE [kind |-> "weighted", population |-> its, weights |-> WeightsOf(its, prx)]

\* BaseRotator.add / aadd
WeightedAdd(async, p) ==
    /\ Len(items) < MaxItems
    /\ items' = Append(items, p)
    /\ iterator' = RebuildWeighted(items', proxy)
    /\ result' = NoResult
    /\ lastOp' = [op |-> "add", async |-> async, arg |-> p]
    /\ UNCHANGED <<kind, strategy, viaFile, results, prxVars>>

\* BaseRotator.remove / aremove
WeightedRemove(async, p) ==
    /\ items' = Without(items, p)
    /\ iterator' = RebuildWeighted(items', proxy)
    /\ result' = NoResult
    /\ lastOp' = [op |-> "remove", async |-> async, arg |-> p]
    /\ UNCHANGED <<kind, strategy, viaFile, results, prxVars>>

\* ProxyRotator.mark_result / amark_result
WeightedMarkNoRebuild(async, p, success) ==
    /\ lastMark.n < MaxMarks
    /\ proxy' = [proxy EXCEPT ![p] = UpdateProxyStats(@, success, NoLatency)]
    /\ lastMark' = [n |-> lastMark.n + 1]
    /\ result' = NoResult
    /\ lastOp' = [op |-> "mark_result", async |-> async, arg |-> p]
    /\ UNCHANGED <<kind, items, strategy, viaFile, results, iterator>>
WeightedMarkResult(async, p, success) ==
    /\ lastMark.n < MaxMarks
    /\ proxy' = [proxy EXCEPT ![p] = UpdateProxyStats(@, success, NoLatency)]
    /\ iterator' = IF strategy = "weighted" THEN RebuildWeighted(items, proxy') ELSE iterator
    /\ lastMark' = [n |-> lastMark.n + 1]
    /\ result' = NoResult
    /\ lastOp' = [op |-> "mark_result", async |-> async, arg |-> p]
    /\ UNCHANGED <<kind, items, strategy, viaFile, results>>

\* BaseRotator.next / anext: the draw reads the iterator's own weights
WeightedNext(async) ==
    /\ RotNext(async)
    /\ UNCHANGED prxVars

InitWeighted ==
    /\ \E its \in {l \in ItemLists : Len(l) <= 2 /\ \A i \in 1..Len(l) : l[i] \in Pool} :
         /\ kind = "ProxyRotator"
         /\ items = its
         /\ strategy = "weighted"
         /\ viaFile = [fromFile |-> FALSE, given |-> "weighted"]
         /\ lastOp = [op |-> "init", async |-> FALSE, arg |-> Invalid]
         /\ result = NoResult
         /\ results = <<>>
    /\ \E w \in [Pool -> {100, 1000}] :
         proxy = [p \in Pool |-> [weight |-> InitWeight(w[p]), failures |-> 0,
                                  success_rate |-> NoRate, latency |-> NoLatency]]
    /\ iterator = RebuildWeighted(items, proxy)
    /\ lastMark = [n |-> 0]
    /\ LockIdle
    /\ TlsIdle
    /\ PairIdle
    /\ ExtraIdle
    /\ LifeIdle
    /\ HdrIdle
    /\ CliIdle

NextWeighted ==
    /\ \E a \in BOOLEAN :
         \/ WeightedNext(a)
         \/ \E p \in Pool : WeightedAdd(a, p)
         \/ \E p \in Pool : WeightedRemove(a, p)
         \/ \E p \in Pool, ok \in BOOLEAN : WeightedMarkResult(a, p, ok)
    /\ UNCHANGED <<hdrVars, cliVars, tlsVars, life, lockVars, pairVars, extraVars>>

SpecWeighted == InitWeighted /\ [][NextWeighted]_vars

\* C25: under the weighted strategy, after every completed mark_result/
\* amark_result, add or remove (and so at every draw) the sampler's population
\* is the current item list and its weights are the current weights of those
\* items; a draw leaves the sampler as it is.
C25_SamplerIsCurrent ==
    /\ items = <<>> => iterator = NoIterator
    /\ items # <<>> =>
          /\ iterator.kind = "weighted"
          /\ iterator.population = items
          /\ iterator.weights = WeightsOf(items, proxy)

\* a mark_result on a proxy of the list has changed its weight, and the
\* sampler of the two-proxy list holds the new weight
C25_Witness ==
    /\ lastOp.op = "mark_result"
    /\ Len(items) = 2
    /\ items[1] # items[2]
    /\ lastOp.arg = items[2]
    /\ proxy[items[2]].weight # proxy[items[1]].weight
    /\ proxy[items[2]].weight \notin {InitWeight(100), InitWeight(1000)}
    /\ iterator.weights[2] = proxy[items[2]].weight

----------------------------------------------------------------------------
(* ProxyRotator.from_file (rotators.py: BaseRotator.from_file,             *)
(* ProxyRotator.rebuild_item; urls.py: Proxy.from_dict, Proxy.from_string, *)
(* Proxy._prepare).  A proxy URL string is the record of its scheme, host  *)
(* and port (scheme "" when the string has no "://"); a line of a text     *)
(* file is a sequence of tokens; a Proxy is the record of the scheme, host *)
(* and port it was built with.  Each entry of a source comes with the      *)
(* proxy it denotes, or NoProxy when it is invalid, blank or a comment.    *)

ALLOWED_SCHEMES == {"http", "https", "socks5", "socks5h"}
MaxPort == 65535

\* None, and the exception Proxy() raises
NoProxy == [kind |-> "None"]
ProxyError == [kind |-> "ProxyError"]

\* "proxy1:8000", "socks5://proxy2:1080", "ftp://proxy1:21", "http://proxy1:99999"
UrlPlain == [scheme |-> "", host |-> "proxy1", port |-> 8000]
UrlSocks == [scheme |-> "socks5", host |-> "proxy2", port |-> 1080]
UrlFtp == [scheme |-> "ftp", host |-> "proxy1", port |-> 21]
UrlBadPort == [scheme |-> "http", host |-> "proxy1", port |-> 99999]

\* the proxies the valid strings denote
Proxy1 == [scheme |-> "http", host |-> "proxy1", port |-> 8000]
Proxy2 == [scheme |-> "socks5", host |-> "proxy2", port |-> 1080]

\* tokens of a line other than the proxy string
Space == [c |-> " "]
Hash == [c |-> "#"]
Note == [c |-> "note"]

\* Proxy.__init__ -> Proxy._prepare: the Proxy built from a URL string, or
\* ProxyError
NewProxy(url) ==
    LET u == IF url.scheme = "" THEN [url EXCEPT !.scheme = "http"] ELSE url
    IN IF u.port > MaxPort THEN ProxyError
       ELSE IF u.scheme \notin ALLOWED_SCHEMES THEN ProxyError
       ELSE u

RECURSIVE Strip(_)
\* str.strip()
Strip(line) ==
    IF line = <<>> THEN <<>>
    ELSE IF Head(line) = Space THEN Strip(Tail(line))
    ELSE IF line[Len(line)] = Space THEN Strip(SubSeq(line, 1, Len(line) - 1))
    ELSE line

RECURSIVE BeforeHash(_)
\* line.split("#", 1)[0]
BeforeHash(line) ==
    IF line = <<>> THEN <<>>
    ELSE IF Head(line) = Hash THEN <<>>
    ELSE <<Head(line)>> \o BeforeHash(Tail(line))

\* Proxy.from_string
FromString(raw) ==
    IF Strip(raw) = <<>> THEN ProxyError ELSE NewProxy(Strip(raw)[1])

\* Proxy.from_dict
FromDict(data) ==
    IF ~data.hasUrl THEN ProxyError ELSE NewProxy(data.url)

\* ProxyRotator.rebuild_item
RebuildItemNoExcept(item) ==
    IF item.t = "Proxy" THEN item.proxy
    ELSE IF item.t = "dict" THEN FromDict(item)
    ELSE IF item.t = "str" THEN FromString(item.s)
    ELSE NoProxy
RebuildItem(item) ==
    IF item.t = "Proxy" THEN item.proxy
    ELSE IF item.t = "dict"
      THEN (IF FromDict(item) = ProxyError THEN NoProxy ELSE FromDict(item))
    ELSE IF item.t = "str"
      THEN (IF FromString(item.s) = ProxyError THEN NoProxy ELSE FromString(item.s))
    ELSE NoProxy

RECURSIVE TextItems(_)
\* from_file on a text file: the loop over path.read_text().splitlines()
TextItems(lines) ==
    IF lines = <<>> THEN <<>>
    ELSE LET line_content == Strip(BeforeHash(Head(lines)))
         IN IF line_content = <<>> THEN TextItems(Tail(lines))
            ELSE <<RebuildItem([t |-> "str", s |-> line_content])>> \o TextItems(Tail(lines))

\* from_file: items before the None entries are dropped
FromFileItems(how, source) ==
    IF how = "txt" THEN TextItems(source)
    ELSE [i \in 1..Len(source) |-> RebuildItem(source[i])]

\* entries of a list (or of a .json file, which holds no Proxy objects)
ListEntries ==
    { [raw |-> [t |-> "Proxy", proxy |-> Proxy1], denotes |-> Proxy1],
      [raw |-> [t |-> "dict", hasUrl |-> TRUE, url |-> UrlSocks], denotes |-> Proxy2],
      [raw |-> [t |-> "dict", hasUrl |-> TRUE, url |-> UrlFtp], denotes |-> NoProxy],
      [raw |-> [t |-> "dict", hasUrl |-> FALSE], denotes |-> NoProxy],
      [raw |-> [t |-> "str", s |-> <<UrlPlain>>], denotes |-> Proxy1],
      [raw |-> [t |-> "str", s |-> <<UrlBadPort>>], denotes |-> NoProxy],
      [raw |-> [t |-> "int"], denotes |-> NoProxy] }

\* lines of a text file
TextLines ==
    { [raw |-> <<>>, denotes |-> NoProxy],
      [raw |-> <<Space>>, denotes |-> NoProxy],
      [raw |-> <<Hash, Note>>, denotes |-> NoProxy],
      [raw |-> <<UrlPlain>>, denotes |-> Proxy1],
      [raw |-> <<Space, UrlSocks, Space, Hash, Note>>, denotes |-> Proxy2],
      [raw |-> <<UrlFtp>>, denotes |-> NoProxy],
      [raw |-> <<UrlBadPort, Space, Hash, Note>>, denotes |-> NoProxy] }

\* the sources from_file is called with
FileSources(how) ==
    IF how = "txt" THEN SeqsUpTo(TextLines, MaxItems)
    ELSE IF how = "json" THEN SeqsUpTo({e \in ListEntries : e.raw.t \in {"dict", "str"}}, MaxItems)
    ELSE SeqsUpTo(ListEntries, MaxItems)

RawOf(source) == [i \in 1..Len(source) |-> source[i].raw]

\* ProxyRotator.from_file(source, strategy): rebuild every entry, keep the ones
\* that are not None, build the rotator; an exception out of rebuild_item ends
\* the call
FromFileLoad ==
    /\ lastOp.op = "from_file"
    /\ \E rebuilt \in {FromFileItems(viaFile.how, RawOf(viaFile.source))} :
         IF \E i \in 1..Len(rebuilt) : rebuilt[i] = ProxyError
           THEN /\ result' = ProxyError
                /\ lastOp' = [op |-> "raised", async |-> FALSE, arg |-> Invalid]
                /\ UNCHANGED <<items, strategy, iterator>>
           ELSE /\ items' = SelectSeq(rebuilt, LAMBDA item : item # NoProxy)
                /\ strategy' = CtorStrategy(kind, FromFileStrategy(kind, viaFile.given))
                /\ iterator' = RebuildIterator(items', strategy', NoIterator)
                /\ result' = NoResult
                /\ lastOp' = [op |-> "init", async |-> FALSE, arg |-> Invalid]
    /\ UNCHANGED <<kind, viaFile, results>>

\* next()/anext() on the rotator from_file returned
LoadedNext(async) ==
    /\ lastOp.op \in {"init", "next"}
    /\ RotNext(async)

InitFile ==
    /\ \E how \in {"list", "json", "txt"}, s \in {Unset, "round_robin"} :
         \E src \in FileSources(how) :
            viaFile = [fromFile |-> TRUE, given |-> s, how |-> how, source |-> src]
    /\ kind = "ProxyRotator"
    /\ items = <<>>
    /\ strategy = Unset
    /\ iterator = NoIterator
    /\ lastOp = [op |-> "from_file", async |-> FALSE, arg |-> Invalid]
    /\ result = NoResult
    /\ results = <<>>
    /\ HdrIdle
    /\ CliIdle
    /\ RestIdle

NextFile ==
    /\ \/ FromFileLoad
       \/ \E a \in BOOLEAN : LoadedNext(a)
    /\ UNCHANGED <<hdrVars, cliVars, restVars>>

SpecFile == InitFile /\ [][NextFile]_vars

\* the proxies the entries of a source denote, in source order
Denoted(source) ==
    SelectSeq([i \in 1..Len(source) |-> source[i].denotes], LAMBDA d : d # NoProxy)

\* C27: ProxyRotator.from_file does not raise because of an invalid entry
\* (unsupported scheme, malformed string, dict without a url key), and the
\* item list of the rotator it returns is the valid entries of the source in
\* source order, blank lines and #-comments of a text file left out.
C27_FromFileKeepsValid ==
    /\ lastOp.op # "raised"
    /\ lastOp.op \in {"init", "next"} => items = Denoted(viaFile.source)

\* a text file with a valid line, an invalid or blank one and a second valid
\* line with a comment: the rotator holds the two proxies in that order
C27_Witness ==
    /\ lastOp.op = "init"
    /\ viaFile.how = "txt"
    /\ Len(viaFile.source) = 3
    /\ viaFile.source[2].denotes = NoProxy
    /\ items = <<Proxy1, Proxy2>>

----------------------------------------------------------------------------
(* The requests of a redirect chain: models/urls.py, models/request.py and *)
(* client.py.  A string is the sequence of its tokens, so that building a  *)
(* URL joins sequences and parsing one cuts the joined sequence again.     *)

\* settings.DEFAULT_TIMEOUT
DEFAULT_TIMEOUT == 30

\* None
None == "None"
\* an argument the caller left out, and one the caller gave
NotGiven == [given |-> FALSE]
Given(v) == [given |-> TRUE, v |-> v]

\* the first index of q that holds x, or 0
Find(q, x) ==
    IF \E i \in 1..Len(q) : q[i] = x
      THEN CHOOSE i \in 1..Len(q) : q[i] = x /\ \A j \in 1..(i - 1) : q[j] # x
      ELSE 0

\* q before its first x, q after it, and q from it on
Before(q, x) == IF Find(q, x) = 0 THEN q ELSE SubSeq(q, 1, Find(q, x) - 1)
After(q, x) == IF Find(q, x) = 0 THEN <<>> ELSE SubSeq(q, Find(q, x) + 1, Len(q))
From(q, x) == IF Find(q, x) = 0 THEN <<>> ELSE SubSeq(q, Find(q, x), Len(q))

\* the texts int() reads as a port
PortTokens == {"8000", "9000"}

\* URL.netloc
Netloc(u) == IF u.port # <<>> THEN u.host \o <<":">> \o u.port ELSE u.host

\* URL._build for a URL without userinfo and without a query
UrlBuild(u) ==
    <<u.scheme, "://">> \o Netloc(u) \o u.path
        \o (IF u.fragment # <<>> THEN <<"#">> \o u.fragment ELSE <<>>)

\* URL._prepare: urlparse cuts the fragment at the first "#", reads a scheme
\* and a network location only from a text that starts "<scheme>://", ends the
\* network location at the first "/" and cuts the port at its ":"; int() of a
\* port that is not a number raises ValueError, which becomes URLError
UrlPrepare(text) ==
    LET rest == Before(text, "#")
        hier == Len(rest) >= 2 /\ rest[1] \in Schemes /\ rest[2] = "://"
        tail == IF hier THEN SubSeq(rest, 3, Len(rest)) ELSE rest
        netloc == IF hier THEN Before(tail, "/") ELSE <<>>
        port == After(netloc, ":")
    IN IF port # <<>> /\ ~(Len(port) = 1 /\ port[1] \in PortTokens)
         THEN [error |-> "URLError"]
         ELSE [error |-> "none",
               url |-> [scheme |-> IF hier THEN rest[1] ELSE "",
                        host |-> Before(netloc, ":"),
                        port |-> port,
                        path |-> IF hier THEN From(tail, "/") ELSE tail,
                        fragment |-> After(text, "#")]]

\* Headers.__getitem__: self.get(key), which returns None for a key the
\* headers lack; no KeyError is raised
HeadersGetItem(headers, key) ==
    [raised |-> FALSE,
     value |-> IF key \in DOMAIN headers THEN headers[key] ELSE <<None>>]

\* MutableMapping.setdefault: try self[key], except KeyError: self[key] = default
SetDefault(headers, key, default) ==
    IF HeadersGetItem(headers, key).raised
      THEN [k \in DOMAIN headers \cup {key} |-> IF k = key THEN default ELSE headers[k]]
      ELSE headers

\* Request._prepare_headers for a request without a body (the stream adds no
\* header): Headers(headers) is a copy under lower-case keys
RequestPrepareHeaders(headers, url) ==
    IF url.host # <<>> /\ "host" \notin DOMAIN headers
      THEN SetDefault(headers, "host", url.host)
      ELSE headers

\* Request.__init__, given what URL(url) made of the url argument
RequestInit(method, parsed, headers, cookies, via, timeout) ==
    IF parsed.error # "none" THEN [error |-> parsed.error]
    ELSE [error |-> "none",
          request |-> [method |-> method,
                       url |-> parsed.url,
                       cookies |-> cookies,
                       proxy |-> via,
                       timeout |-> IF timeout.given THEN timeout.v ELSE DEFAULT_TIMEOUT,
                       headers |-> RequestPrepareHeaders(headers, parsed.url)]]

\* BaseClient.prepare_config: TLSConfig.copy_with keeps the client config's
\* own value of every field it is given None for
PrepareConfig(request, cl) ==
    [requestMethod |-> request.method,
     requestUrl |-> request.url,
     headers |-> request.headers,
     requestCookies |-> request.cookies,
     proxyUrl |-> IF request.proxy # None THEN request.proxy ELSE cl.proxyUrl,
     timeoutSeconds |-> request.timeout,
     sessionId |-> cl.sessionId]

\* BaseClient._rebuild_redirect_url on the parsed Location: the URL object it
\* returns or the error it raises, and the session it leaves the client with
RebuildRedirectUrlParts(request, response, cl, eng) ==
    LET location == UrlPrepare(response.location)
    IN IF location.error # "none"
         THEN [error |-> location.error, client |-> cl, engine |-> eng]
       ELSE
         LET url == IF Netloc(location.url) = <<>>
                      THEN [location.url EXCEPT !.scheme = request.url.scheme,
                                                !.host = request.url.host,
                                                !.port = request.url.port]
                      ELSE location.url
         IN IF url.scheme = request.url.scheme
              THEN [error |-> "none", url |-> url, client |-> cl, engine |-> eng]
            ELSE IF request.url.scheme = "http"
              THEN [error |-> "none", url |-> [url EXCEPT !.scheme = request.url.scheme],
                    client |-> cl, engine |-> eng]
            ELSE IF cl.http2 \in {"auto", "None"}
              THEN [error |-> "none", url |-> url,
                    client |-> [cl EXCEPT !.sessionId = eng.nextId],
                    engine |-> [eng EXCEPT !.destroyed = @ \cup {cl.sessionId},
                                           !.nextId = @ + 1]]
            ELSE [error |-> "RemoteProtocolError", client |-> cl, engine |-> eng]

\* BaseClient._rebuild_redirect_request: Request(method=..., url=..., headers=
\* request.headers, cookies=response.cookies); URL(url) of the URL object it is
\* given is _prepare(str(url))
RebuildRedirectRequestKeepsCookies(request, response, cl, eng) ==
    LET method == RebuildRedirectMethod(request.method, response.status)
        rebuilt == RebuildRedirectUrlParts(request, response, cl, eng)
    IN IF rebuilt.error # "none" THEN rebuilt
       ELSE LET made == RequestInit(method, UrlPrepare(UrlBuild(rebuilt.url)),
                                    request.headers, request.cookies, None, NotGiven)
            IN IF made.error # "none"
                 THEN [error |-> made.error, client |-> rebuilt.client,
                       engine |-> rebuilt.engine]
                 ELSE [error |-> "none", request |-> made.request,
                       client |-> rebuilt.client, engine |-> rebuilt.engine]
RebuildRedirectRequest(request, response, cl, eng) ==
    LET method == RebuildRedirectMethod(request.method, response.status)
        rebuilt == RebuildRedirectUrlParts(request, response, cl, eng)
    IN IF rebuilt.error # "none" THEN rebuilt
       ELSE LET made == RequestInit(method, UrlPrepare(UrlBuild(rebuilt.url)),
                                    request.headers, response.cookies, None, NotGiven)
            IN IF made.error # "none"
                 THEN [error |-> made.error, client |-> rebuilt.client,
                       engine |-> rebuilt.engine]
                 ELSE [error |-> "none", request |-> made.request,
                       client |-> rebuilt.client, engine |-> rebuilt.engine]

\* ---- the inputs of the chain ----
\* the URL a caller asks for
StartUrls ==
    {<<sch, "://", "a.test">> \o port \o <<"/", "start">> :
        sch \in Schemes, port \in {<<>>, <<":", "8000">>}}
\* the Location values of the replies: a path, a path with a fragment, a
\* relative reference, and absolute URLs
HopLocations ==
    {<<"/", "ok">>, <<"/", "ok", "#", "fragment">>, <<"next">>}
      \cup {<<sch, "://", "b.test">> \o port \o <<"/", "x">> :
              sch \in Schemes, port \in {<<>>, <<":", "9000">>}}
\* headers and cookies as mappings from the (lower-case) name to the value
NoHeaders == <<>>
HopHeaders == {NoHeaders, [accept |-> <<"text">>], [host |-> <<"custom">>]}
HopCookies == {<<>>, [sid |-> "old"], [sid |-> "new"]}
ProxyUrl == "http://p.test:3128"
HopReplies ==
    [status : {200, FOUND}, location : HopLocations, cookies : {<<>>, [sid |-> "new"]}]

\* the response of a send() no reply has reached yet
NoResponse == [status |-> 0, location |-> <<>>, cookies |-> <<>>]

\* Client.send(request) up to the first dispatch, for a request the caller
\* built with Request(method, url, headers=, cookies=, proxy=, timeout=)
HopSend(method, url, headers, cookies, via, timeout, follow_redirects) ==
    /\ call[1].pc = "idle"
    /\ \E made \in {RequestInit(method, UrlPrepare(url), headers, cookies, via, timeout)} :
       \E cl \in {[client EXCEPT !.state = "OPENED", !.follow_redirects = follow_redirects]} :
         /\ made.error = "none"
         /\ client' = cl
         /\ call' = <<[pc |-> "inflight", request |-> made.request,
                       given |-> [headers |-> headers, proxy |-> via, timeout |-> timeout],
                       history |-> 0,
                       response |-> NoResponse,
                       first |-> PrepareConfig(made.request, cl),
                       config |-> PrepareConfig(made.request, cl)]>>
    /\ UNCHANGED engine

\* BaseClient._send from the engine's reply on: `history` is len(history),
\* `response` the reply that was followed last, `first` and `config` the
\* configs of the first and of the latest dispatch
HopReply(reply) ==
    /\ call[1].pc = "inflight"
    /\ LET c == call[1]
       IN IF reply.status \in REDIRECT_STATUS
            THEN \E next \in {RebuildRedirectRequest(c.request, reply, client, engine)} :
                   /\ client' = next.client
                   /\ engine' = next.engine
                   /\ IF next.error # "none"
                        THEN call' = <<[c EXCEPT !.pc = "raised"]>>
                      ELSE IF ~client.follow_redirects
                        THEN call' = <<[c EXCEPT !.pc = "returned"]>>
                      ELSE IF ~(c.history < client.max_redirects)
                        THEN call' = <<[c EXCEPT !.pc = "raised"]>>
                      ELSE call' = <<[c EXCEPT
                             !.request = next.request,
                             !.history = @ + 1,
                             !.response = reply,
                             !.config = PrepareConfig(next.request, next.client)]>>
            ELSE /\ call' = <<[c EXCEPT !.pc = "returned"]>>
                 /\ UNCHANGED <<client, engine>>

\* BaseClient.__init__ of a client built without a proxy
InitHop ==
    /\ \E h2 \in {"auto", "http1"} :
         client = [state |-> "UNOPENED", follow_redirects |-> TRUE,
                   max_redirects |-> MaxRedirects, http2 |-> h2, sessionId |-> 1,
                   proxyUrl |-> ""]
    /\ engine = [destroyed |-> {}, nextId |-> 2]
    /\ call = <<IdleCall>>
    /\ RotIdle
    /\ HdrIdle
    /\ RestIdle

NextHop ==
    /\ \/ \E url \in StartUrls, headers \in HopHeaders, cookies \in HopCookies,
            pt \in {<<None, NotGiven>>, <<ProxyUrl, Given(5)>>}, f \in BOOLEAN :
            HopSend("POST", url, headers, cookies, pt[1], pt[2], f)
       \/ \E r \in HopReplies : HopReply(r)
    /\ UNCHANGED <<rotVars, hdrVars, restVars>>

SpecHop == InitHop /\ [][NextHop]_vars

\* a reply was followed: _send dispatched the request it rebuilt
Followed ==
    /\ call[1].pc = "inflight"
    /\ call'[1].pc = "inflight"
    /\ call'[1].history = call[1].history + 1

\* C31: for every followed redirect the rebuilt request's URL takes scheme, host
\* and port from the Location header when Location carries a network location
\* and from the current request's URL when it does not, and takes path and
\* fragment from Location.
C31_RebuiltUrlParts ==
    [][Followed =>
         LET location == UrlPrepare(call'[1].response.location).url
             from == IF Netloc(location) # <<>> THEN location ELSE call[1].request.url
             url == call'[1].request.url
         IN /\ url.scheme = from.scheme
            /\ url.host = from.host
            /\ url.port = from.port
            /\ url.path = location.path
            /\ url.fragment = location.fragment]_vars

\* C32: for every followed redirect the rebuilt request, and the config it is
\* dispatched with, carry the headers of the request that was redirected and,
\* as cookies, exactly the cookies of the redirect response.
C32_HeadersKeptCookiesReplaced ==
    [][Followed =>
         /\ call'[1].request.headers = call[1].request.headers
         /\ call'[1].request.cookies = call'[1].response.cookies
         /\ call'[1].config.headers = call[1].request.headers
         /\ call'[1].config.requestCookies = call'[1].response.cookies]_vars

\* a request sent with a cookie was redirected by a response that set another
\* one, and a second time by a response that set none
C32_Witness ==
    /\ call[1].pc = "inflight"
    /\ call[1].history = 2
    /\ call[1].first.requestCookies = [sid |-> "old"]
    /\ call[1].first.headers = [accept |-> <<"text">>]
    /\ call[1].config.headers = [accept |-> <<"text">>]
    /\ call[1].config.requestCookies = <<>>

\* C33: every dispatch of a redirect chain carries the same proxy URL and the
\* same timeout as the first dispatch of that send().
C33_ProxyAndTimeoutKept ==
    call[1].pc # "idle" =>
      /\ call[1].config.proxyUrl = call[1].first.proxyUrl
      /\ call[1].config.timeoutSeconds = call[1].first.timeoutSeconds

\* C34: every dispatched request, rebuilt ones included, is sent with a Host
\* header equal to the host of its URL, unless the caller set a Host header.
C34_HostHeaderIsUrlHost ==
    (call[1].pc # "idle" /\ "host" \notin DOMAIN call[1].given.headers) =>
      /\ "host" \in DOMAIN call[1].config.headers
      /\ call[1].config.headers["host"] = call[1].config.requestUrl.host

----------------------------------------------------------------------------
(* One client shared by two callers (threads, or tasks of one event loop): *)
(* client.py.  A caller's request() runs up to its first dispatch in one   *)
(* step and is resumed by each engine reply, as in SpecClient; a caller    *)
(* may also close the client.  `life` keeps what the constructor and each  *)
(* call in progress were given for follow_redirects.                       *)

\* the calls made on the shared client
MaxVerbCalls == 3

\* settings.DEFAULT_FOLLOW_REDIRECTS
DEFAULT_FOLLOW_REDIRECTS == TRUE

\* the replies the engine gives in this part
SharedReplies ==
    [status : {200, FOUND},
     location : {PathLocation, AbsLocation("http", "a.test"), AbsLocation("https", "a.test")}]

\* Client.request / AsyncClient.request and the verb methods that call it: the
\* follow_redirects parameter defaults to DEFAULT_FOLLOW_REDIRECTS and is
\* passed on to send()
VerbCall(t, method, url, follow_redirects) ==
    /\ life.ops < MaxVerbCalls
    /\ Send(t, method, url,
            IF follow_redirects.given THEN follow_redirects.v ELSE DEFAULT_FOLLOW_REDIRECTS)
    /\ life' = [life EXCEPT !.ops = @ + 1, !.arg[t] = follow_redirects]

\* _send resumed by the engine's reply
SharedReply(t, reply) ==
    /\ Reply(t, reply)
    /\ UNCHANGED life

\* the caller takes what the call returned or raised and may call again
SharedReturn(t) ==
    /\ call[t].pc = "done"
    /\ call' = [call EXCEPT ![t] = IdleCall]
    /\ UNCHANGED <<client, engine, life>>

\* BaseClient.close / AsyncClient.aclose
SharedClose ==
    /\ life.ops < MaxVerbCalls
    /\ engine' = [engine EXCEPT !.destroyed = @ \cup {client.sessionId}]
    /\ client' = [client EXCEPT !.state = "CLOSED"]
    /\ life' = [life EXCEPT !.ops = @ + 1]
    /\ UNCHANGED call

\* BaseClient.__init__
InitShared ==
    /\ \E h2 \in {"auto", "http2"}, f \in BOOLEAN :
         /\ client = [state |-> "UNOPENED", follow_redirects |-> f, max_redirects |-> 1,
                      http2 |-> h2, sessionId |-> 1]
         /\ life = [ops |-> 0, built |-> f, arg |-> [t \in Threads |-> NotGiven]]
    /\ engine = [destroyed |-> {}, nextId |-> 2]
    /\ call = [t \in Threads |-> IdleCall]
    /\ RotIdle
    /\ HdrIdle
    /\ TlsIdle /\ PrxIdle /\ LockIdle /\ PairIdle /\ ExtraIdle

NextShared ==
    /\ \/ \E t \in Threads, sch \in Schemes, f \in {NotGiven, Given(TRUE), Given(FALSE)} :
            VerbCall(t, "GET", [scheme |-> sch, host |-> "a.test"], f)
       \/ \E t \in Threads, r \in SharedReplies : SharedReply(t, r)
       \/ \E t \in Threads : SharedReturn(t)
       \/ SharedClose
    /\ UNCHANGED <<rotVars, hdrVars, tlsVars, prxVars, lockVars, pairVars, extraVars>>

SpecShared == InitShared /\ [][NextShared]_vars

\* C36: a client constructed with follow_redirects=False does not follow a
\* redirect in a call made without a follow_redirects argument, and one
\* constructed with follow_redirects=True follows it, whatever earlier calls
\* were given.
C36_ClientSettingApplies ==
    [][\A t \in Threads, r \in SharedReplies :
          (/\ call[t].pc = "inflight"
           /\ ~life.arg[t].given
           /\ \A d \in Threads \ {t} : call[d].pc = "idle"
           /\ r.status \in REDIRECT_STATUS
           /\ Reply(t, r)) =>
              IF life.built
                THEN call'[t].pc = "done" => call'[t].outcome.kind # "response"
                ELSE call'[t].pc = "done" /\ call'[t].outcome.kind = "response"]_vars

\* C37: when two callers share the client, a call made with
\* follow_redirects=False never follows a redirect and a call made with
\* follow_redirects=True never returns a redirect as its response, in every
\* interleaving.
C37_EachCallKeepsItsFlag ==
    [][\A t \in Threads, r \in SharedReplies :
          (/\ call[t].pc = "inflight"
           /\ life.arg[t].given
           /\ r.status \in REDIRECT_STATUS
           /\ Reply(t, r)) =>
              IF life.arg[t].v
                THEN call'[t].pc = "done" => call'[t].outcome.kind # "response"
                ELSE call'[t].pc = "done"]_vars

\* C38: no request is dispatched with a session id on which destroy_session
\* has been called, by close or by a cross-scheme redirect of any call.
C38_NoDispatchOnDestroyedSession ==
    [][\A t \in Threads :
          (call'[t] # call[t] /\ call'[t].pc = "inflight") =>
              call'[t].sessionId \notin engine'.destroyed]_vars

----------------------------------------------------------------------------
(* The release of the rotator's locks: models/rotators.py.  The callers and *)
(* the steps are those of SpecLock; the rotator is built empty, so that     *)
(* next and anext raise inside the `with` block until an item is added, and *)
(* every caller that has called goes on running.                            *)

\* the operations called in this part
ReleaseCalls == {rc \in RotatorCalls : ~rc.success}

\* a caller that has called takes its next step
Runs(c) ==
    /\ \/ Acquire(c)
       \/ Body(c)
       \/ ReadField(c)
       \/ WriteField(c)
       \/ Rebuild(c)
       \/ Release(c)
    /\ UNCHANGED <<hdrVars, cliVars, tlsVars, life, pairVars, extraVars>>

InitRelease ==
    /\ Direct("ProxyRotator", <<>>, "weighted")
    /\ proxy = [weight |-> InitWeight(200), failures |-> 0, success_rate |-> NoRate,
                latency |-> NoLatency]
    /\ lastMark = [n |-> 0, async |-> FALSE, success |-> FALSE, before |-> InitWeight(200)]
    /\ locks = [lock |-> 0, async_lock |-> 0]
    /\ caller = [c \in Callers |-> NotCalled]
    /\ TlsIdle
    /\ PairIdle
    /\ ExtraIdle
    /\ LifeIdle
    /\ HdrIdle
    /\ CliIdle

NextRelease ==
    \/ \E c \in Callers, a \in BOOLEAN, rc \in ReleaseCalls :
         Call(c, a, rc) /\ UNCHANGED <<hdrVars, cliVars, tlsVars, life, pairVars, extraVars>>
    \/ \E c \in Callers : Runs(c)

SpecRelease == InitRelease /\ [][NextRelease]_vars /\ \A c \in Callers : WF_vars(Runs(c))

\* C39: a lock is held only by a caller inside its `with` block, also after a
\* next or anext that raised on an empty rotator, and every call that has
\* reached its `with` statement acquires the lock and completes.
C39_LocksReleased ==
    /\ [](\A l \in {"lock", "async_lock"} :
            locks[l] # 0 => (InCriticalSection(locks[l]) /\ LockOf(caller[locks[l]].async) = l))
    /\ \A c \in Callers : (caller[c].pc = "waiting") ~> (caller[c].pc = "done")

\* next() has raised on the empty rotator and released the lock, and a later
\* add() has acquired the same lock and completed
C39_Witness ==
    /\ caller[1].pc = "done" /\ caller[1].op = "next" /\ ~caller[1].async
    /\ caller[2].pc = "done" /\ caller[2].op = "add" /\ ~caller[2].async
    /\ items = <<2>>
    /\ lastOp.op = "add"
    /\ locks = [lock |-> 0, async_lock |-> 0]

====
